---- MODULE Spec2Model ----
(***************************************************************************)
(* Model of the Kargo analytics adapter (kargoAnalyticsAdapter.js): the    *)
(* per-auction cache, the nine event handlers dispatched by track(), the   *)
(* payload formatters, the debounced auction delivery, the immediate win   *)
(* delivery, the sampling gate and the delayed eviction; and of the request *)
(* counter of the Kargo bid adapter (kargoBidAdapter.js).                   *)
(*                                                                         *)
(* JavaScript values are encoded as follows.                               *)
(*   - a missing/undefined/null string is Null, a missing number is NoNum; *)
(*   - a missing auction id is NoId;                                       *)
(*   - CPMs are integers counted in 1/10000 of a currency unit, cpmUsd in  *)
(*     1/1000 (the three fractional digits toFixed(3) keeps);              *)
(*   - a JS object used as a map and iterated (adUnits, adUnit.bids) is a  *)
(*     sequence in insertion order whose elements carry their key;         *)
(*   - the record object a closure holds is identified by the field gen,   *)
(*     a fresh number for every object handleAuctionInit creates.          *)
(***************************************************************************)
EXTENDS Integers, Sequences, FiniteSets, TLC

VARIABLES
    cache,          \* cache.auctions: auction id -> AuctionRecord
    config,         \* _config
    sampled,        \* _sampled
    sendTimers,     \* pending setTimeout(sendAuctionAnalytics) per auction id
    cleanupTimers,  \* pending setTimeout(delete cache.auctions[id]) per auction id
    inflight,       \* ajax calls whose success/error callback has not run yet
    enabled,        \* whether the base adapter is subscribed to the host's events
    nextGen,        \* identity of the next record object to be created
    posts,          \* history: every ajax call made, in order
    payloads,       \* history: per record (gen), the latest auction and win bodies
    lastEvent,      \* history: the latest event handed to track()
    nEvents,        \* history: number of events and disable calls so far
    options,        \* history: the options of the latest enableAnalytics call
    inits,          \* history: per record (gen), the args of its auction-init
    participants,   \* history: per record (gen), the (slot, bidder) pairs that
                    \* bid-requested and bid-response events named for it
    budget,         \* bound: how many events the host emits in this run
    now,            \* Date.now(), in clock steps
    lastPageUrl,    \* bid adapter: the page of the latest request
    requestCounter, \* bid adapter: the count the latest request carried
    pathname,       \* window.location.pathname
    requests        \* history: the page and requestCount of every request built

vars == <<cache, config, sampled, sendTimers, cleanupTimers, inflight, enabled,
          nextGen, posts, payloads, lastEvent, nEvents, options, inits, participants,
          budget, now, lastPageUrl, requestCounter, pathname, requests>>

-----------------------------------------------------------------------------
(* Bounds of the model *)

MaxEvents == 3
MaxTimers == 2
MaxPosts == 3
MaxGen == 2
MaxNow == 2

-----------------------------------------------------------------------------
(* Encodings *)

Null == "null"
NoNum == 0 - 1
NoId == "no-id"
Present == "[present]"

AuctionIds == {"a1", "a2"}
Slots == {"s1", "s2"}
Bidders == {"kargo", "appnexus"}
BidIds == {"b1", "b2"}

KARGO_BIDDER_CODE == "kargo"
CURRENCY_USD == "USD"

DEFAULT_CONFIG == [sampling |-> 100, sendWinEvents |-> TRUE, sendDelay |-> 500]

Truthy(n) == n # NoNum /\ n # 0

RECURSIVE SeqSum(_)
SeqSum(s) == IF s = <<>> THEN 0 ELSE Head(s) + SeqSum(Tail(s))

SelectIdx(s, Test(_)) == {i \in 1..Len(s) : Test(s[i])}

\* index of the element of s whose key is k, 0 when there is none (obj[k])
IndexOfKey(s, k) ==
    IF \E i \in 1..Len(s) : s[i].key = k
    THEN CHOOSE i \in 1..Len(s) : s[i].key = k
    ELSE 0

HasKey(s, k) == IndexOfKey(s, k) # 0

\* obj[k] = v on an insertion-ordered object: replace in place or append
PutKey(s, k, v) ==
    IF HasKey(s, k) THEN [s EXCEPT ![IndexOfKey(s, k)] = v] ELSE Append(s, v)

-----------------------------------------------------------------------------
(* Helper functions *)

\* Number(x).toFixed(3): x in 1/10000 -> nearest 1/1000
ToFixed3(x) == (x + 5) \div 10

\* the host's convertCurrency(cpm, from, 'USD'): a fixed rate of 2 USD per unit
HostRate == 2

\* mutant: no USD value when the conversion is not available or fails
convertToUsd_NullOnFailure(cpm, currency, conv) ==
    IF cpm = NoNum \/ cpm <= 0 THEN NoNum
    ELSE IF currency = Null \/ currency = CURRENCY_USD THEN ToFixed3(cpm)
    ELSE IF conv = "ok" THEN ToFixed3(cpm * HostRate)
    ELSE NoNum

\* convertToUsd(cpm, currency); conv is what getGlobal().convertCurrency is on
\* this call: "ok" (a function that converts), "absent" (not a function),
\* "throws" (a function that throws)
convertToUsd(cpm, currency, conv) ==
    IF cpm = NoNum \/ cpm <= 0 THEN NoNum
    ELSE IF currency = Null \/ currency = CURRENCY_USD THEN ToFixed3(cpm)
    ELSE IF conv = "ok" THEN ToFixed3(cpm * HostRate)
    ELSE ToFixed3(cpm)

\* the outcomes of looking up and calling the host's convertCurrency
Conversions == {"ok", "absent", "throws"}

NoGdpr == [present |-> FALSE, applies |-> FALSE, consentString |-> Null]
NoGpp == [present |-> FALSE, gppString |-> Null, applicableSections |-> <<>>]
NullConsent == [isNull |-> TRUE, gdpr |-> NoGdpr, usp |-> Null, gpp |-> NoGpp,
                coppa |-> FALSE]

\* the first bidder request when bidderRequests is empty or missing
NoBidderRequest ==
    [bidderCode |-> Null,
     gdprConsent |-> [present |-> FALSE, gdprApplies |-> FALSE, consentString |-> ""],
     uspConsent |-> "",
     gppConsent |-> [present |-> FALSE, gppString |-> "", applicableSections |-> <<>>],
     coppa |-> FALSE,
     page |-> Null]

\* the consent object built from its three blocks and the coppa flag
ConsentOf(gdpr, usp, gpp, coppa) ==
    [isNull |-> ~(gdpr.present \/ usp # Null \/ gpp.present \/ coppa),
     gdpr |-> gdpr, usp |-> usp, gpp |-> gpp, coppa |-> coppa]

GdprBlock(gdprConsent, string) ==
    IF gdprConsent.present
    THEN [present |-> TRUE, applies |-> gdprConsent.gdprApplies, consentString |-> string]
    ELSE NoGdpr

GppBlock(gppConsent) ==
    IF gppConsent.present
    THEN [present |-> TRUE,
          gppString |-> IF gppConsent.gppString # "" THEN Present ELSE Null,
          applicableSections |-> gppConsent.applicableSections]
    ELSE NoGpp

\* mutant: the GDPR consent string is copied instead of being replaced by the marker
extractConsent_KeepsString(br) ==
    IF br = NoBidderRequest THEN NullConsent
    ELSE ConsentOf(GdprBlock(br.gdprConsent,
                             IF br.gdprConsent.consentString # ""
                             THEN br.gdprConsent.consentString ELSE Null),
                   IF br.uspConsent # "" THEN br.uspConsent ELSE Null,
                   GppBlock(br.gppConsent),
                   br.coppa)

extractConsent(br) ==
    IF br = NoBidderRequest THEN NullConsent
    ELSE ConsentOf(GdprBlock(br.gdprConsent,
                             IF br.gdprConsent.consentString # "" THEN Present ELSE Null),
                   IF br.uspConsent # "" THEN br.uspConsent ELSE Null,
                   GppBlock(br.gppConsent),
                   br.coppa)

\* Array.prototype.sort((a, b) => b - a) as an insertion sort
RECURSIVE InsertDesc(_, _)
InsertDesc(s, x) ==
    IF s = <<>> THEN <<x>>
    ELSE IF x > Head(s) THEN <<x>> \o s
    ELSE <<Head(s)>> \o InsertDesc(Tail(s), x)

RECURSIVE SortDesc(_)
SortDesc(s) == IF s = <<>> THEN <<>> ELSE InsertDesc(SortDesc(Tail(s)), Head(s))

\* Array.prototype.indexOf, 1-based; 0 when absent
IndexOf(s, x) ==
    IF \E i \in 1..Len(s) : s[i] = x
    THEN CHOOSE i \in 1..Len(s) : s[i] = x /\ \A j \in 1..(i - 1) : s[j] # x
    ELSE 0

\* mutant: the CPMs are not sorted, the rank is the position in arrival order
calculateRank_Unsorted(adUnit, cpm) ==
    IF ~Truthy(cpm) THEN NoNum
    ELSE LET received == SelectSeq(adUnit.bids,
                                   LAMBDA b : b.status = "received" /\ b.cpmUsd > 0)
             index == IndexOf([i \in 1..Len(received) |-> received[i].cpmUsd], cpm)
         IN  IF index >= 1 THEN index ELSE NoNum

calculateRank(adUnit, cpm) ==
    IF ~Truthy(cpm) THEN NoNum
    ELSE LET received == SelectSeq(adUnit.bids,
                                   LAMBDA b : b.status = "received" /\ b.cpmUsd > 0)
             cpms == SortDesc([i \in 1..Len(received) |-> received[i].cpmUsd])
             index == IndexOf(cpms, cpm)
         IN  IF index >= 1 THEN index ELSE NoNum

countTotalBids(auctionCache) ==
    SeqSum([i \in 1..Len(auctionCache.adUnits) |-> Len(auctionCache.adUnits[i].bids)])

-----------------------------------------------------------------------------
(* The cache and its records *)

Put(f, k, v) == [x \in DOMAIN f \cup {k} |-> IF x = k THEN v ELSE f[x]]
Remove(f, k) == [x \in DOMAIN f \ {k} |-> f[x]]
Bump(f, k) == [f EXCEPT ![k] = @ + 1]

HasAuction(w, auctionId) == auctionId \in DOMAIN w.cache

AdUnitOf(auctionCache, code) == auctionCache.adUnits[IndexOfKey(auctionCache.adUnits, code)]

\* auctionCache.adUnits[code].bids = bids
WithBids(auctionCache, code, bids) ==
    [auctionCache EXCEPT !.adUnits[IndexOfKey(auctionCache.adUnits, code)].bids = bids]

\* apply f to every bid record of every ad unit
MapBids(auctionCache, f(_)) ==
    [auctionCache EXCEPT !.adUnits =
        [i \in 1..Len(@) |->
            [@[i] EXCEPT !.bids = [j \in 1..Len(@) |-> f(@[j])]]]]

-----------------------------------------------------------------------------
(* Event handlers *)

\* mutant: the record is created whether or not the event has an auction id
handleAuctionInit_NoIdCheck(w, args) ==
    LET first == IF Len(args.bidderRequests) > 0
                 THEN args.bidderRequests[1] ELSE NoBidderRequest
        record ==
            [gen |-> w.nextGen,
             timestamp |-> w.now,
             endTimestamp |-> NoNum,
             duration |-> NoNum,
             timeout |-> args.timeout,
             adUnits |-> [i \in 1..Len(args.adUnits) |->
                            [key |-> args.adUnits[i], bids |-> <<>>]],
             bidderRequests |-> [i \in 1..Len(args.bidderRequests) |->
                                    args.bidderRequests[i].bidderCode],
             bidsReceived |-> <<>>,
             noBids |-> <<>>,
             timeouts |-> <<>>,
             errors |-> <<>>,
             winningBids |-> <<>>,
             consent |-> extractConsent(first),
             referer |-> first.page,
             sent |-> FALSE]
    IN  [w EXCEPT !.cache = Put(@, args.auctionId, record),
                  !.nextGen = @ + 1]

\* mutant: a record is created only for an auction id that has none
handleAuctionInit_OnlyOnce(w, args) ==
    IF args.auctionId = NoId \/ HasAuction(w, args.auctionId) THEN w
    ELSE handleAuctionInit_NoIdCheck(w, args)

handleAuctionInit(w, args) ==
    IF args.auctionId = NoId THEN w
    ELSE LET first == IF Len(args.bidderRequests) > 0
                      THEN args.bidderRequests[1] ELSE NoBidderRequest
             record ==
                [gen |-> w.nextGen,
                 timestamp |-> w.now,
                 endTimestamp |-> NoNum,
                 duration |-> NoNum,
                 timeout |-> args.timeout,
                 adUnits |-> [i \in 1..Len(args.adUnits) |->
                                [key |-> args.adUnits[i], bids |-> <<>>]],
                 bidderRequests |-> [i \in 1..Len(args.bidderRequests) |->
                                        args.bidderRequests[i].bidderCode],
                 bidsReceived |-> <<>>,
                 noBids |-> <<>>,
                 timeouts |-> <<>>,
                 errors |-> <<>>,
                 winningBids |-> <<>>,
                 consent |-> extractConsent(first),
                 referer |-> first.page,
                 sent |-> FALSE]
         IN  [w EXCEPT !.cache = Put(@, args.auctionId, record),
                       !.nextGen = @ + 1]

PendingBid(bidderCode, bidId) ==
    [key |-> bidId, bidder |-> bidderCode, bidId |-> bidId, status |-> "pending",
     requestTimestamp |-> 0, isKargo |-> bidderCode = KARGO_BIDDER_CODE,
     cpm |-> NoNum, cpmUsd |-> NoNum, responseTime |-> NoNum,
     serverResponseTime |-> NoNum, won |-> FALSE]

RECURSIVE RequestBids(_, _, _)
RequestBids(auctionCache, bidderCode, bids) ==
    IF bids = <<>> THEN auctionCache
    ELSE LET bid == Head(bids)
             next == IF HasKey(auctionCache.adUnits, bid.adUnitCode)
                     THEN WithBids(auctionCache, bid.adUnitCode,
                                   PutKey(AdUnitOf(auctionCache, bid.adUnitCode).bids,
                                          bid.bidId, PendingBid(bidderCode, bid.bidId)))
                     ELSE auctionCache
         IN  RequestBids(next, bidderCode, Tail(bids))

handleBidRequested(w, args) ==
    IF ~HasAuction(w, args.auctionId) THEN w
    ELSE [w EXCEPT !.cache[args.auctionId] = RequestBids(@, args.bidderCode, args.bids)]

\* mutant: the response replaces the BidRecord under its key
handleBidResponse_Replaces(w, args, conv) ==
    IF ~HasAuction(w, args.auctionId) THEN w
    ELSE LET auctionCache == w.cache[args.auctionId] IN
         IF ~HasKey(auctionCache.adUnits, args.adUnitCode) THEN w
         ELSE LET adUnit == AdUnitOf(auctionCache, args.adUnitCode)
                  bidId == IF args.originalRequestId # Null
                           THEN args.originalRequestId ELSE args.requestId
                  bidData == [PendingBid(Null, bidId) EXCEPT !.requestTimestamp = NoNum]
                  actualBidder == IF args.bidderCode # Null
                                  THEN args.bidderCode ELSE args.bidder
                  cpmUsd == convertToUsd(args.cpm, args.currency, conv)
                  bid == [bidData EXCEPT !.bidder = actualBidder,
                                         !.bidId = args.requestId,
                                         !.status = "received",
                                         !.cpm = args.cpm,
                                         !.cpmUsd = cpmUsd,
                                         !.responseTime = args.timeToRespond,
                                         !.isKargo = actualBidder = KARGO_BIDDER_CODE]
                  stored == WithBids(auctionCache, args.adUnitCode,
                                     PutKey(adUnit.bids, bidId, bid))
              IN  [w EXCEPT !.cache[args.auctionId] =
                      [stored EXCEPT !.bidsReceived =
                          Append(@, [adUnitCode |-> args.adUnitCode,
                                     bidder |-> actualBidder,
                                     cpm |-> args.cpm, cpmUsd |-> cpmUsd])]]

\* conv: what the host's convertCurrency is during this call
handleBidResponse(w, args, conv) ==
    IF ~HasAuction(w, args.auctionId) THEN w
    ELSE LET auctionCache == w.cache[args.auctionId] IN
         IF ~HasKey(auctionCache.adUnits, args.adUnitCode) THEN w
         ELSE LET adUnit == AdUnitOf(auctionCache, args.adUnitCode)
                  bidId == IF args.originalRequestId # Null
                           THEN args.originalRequestId ELSE args.requestId
                  known == HasKey(adUnit.bids, bidId)
                  bidData == IF known THEN adUnit.bids[IndexOfKey(adUnit.bids, bidId)]
                             ELSE [PendingBid(Null, bidId) EXCEPT !.requestTimestamp = NoNum]
                  actualBidder == IF args.bidderCode # Null
                                  THEN args.bidderCode ELSE args.bidder
                  cpmUsd == convertToUsd(args.cpm, args.currency, conv)
                  bid == [bidData EXCEPT !.bidder = actualBidder,
                                         !.bidId = args.requestId,
                                         !.status = "received",
                                         !.cpm = args.cpm,
                                         !.cpmUsd = cpmUsd,
                                         !.responseTime = args.timeToRespond,
                                         !.isKargo = actualBidder = KARGO_BIDDER_CODE]
                  stored == WithBids(auctionCache, args.adUnitCode,
                                     PutKey(adUnit.bids, bidId, bid))
              IN  [w EXCEPT !.cache[args.auctionId] =
                      [stored EXCEPT !.bidsReceived =
                          Append(@, [adUnitCode |-> args.adUnitCode,
                                     bidder |-> actualBidder,
                                     cpm |-> args.cpm, cpmUsd |-> cpmUsd])]]

\* adUnit.bids[bidId].status = status, when the ad unit and the bid exist
SetStatus(auctionCache, adUnitCode, bidId, status) ==
    IF HasKey(auctionCache.adUnits, adUnitCode)
       /\ HasKey(AdUnitOf(auctionCache, adUnitCode).bids, bidId)
    THEN LET bids == AdUnitOf(auctionCache, adUnitCode).bids
         IN  WithBids(auctionCache, adUnitCode,
                      [bids EXCEPT ![IndexOfKey(bids, bidId)].status = status])
    ELSE auctionCache

\* mutant: a no-bid already in the no-bids sequence is not appended again
handleNoBid_CountsOnce(w, args) ==
    IF ~HasAuction(w, args.auctionId) THEN w
    ELSE [w EXCEPT !.cache[args.auctionId] =
            [SetStatus(@, args.adUnitCode, args.bidId, "no-bid") EXCEPT !.noBids =
                IF \E i \in 1..Len(@) :
                        @[i] = [adUnitCode |-> args.adUnitCode, bidder |-> args.bidder]
                THEN @
                ELSE Append(@, [adUnitCode |-> args.adUnitCode, bidder |-> args.bidder])]]

handleNoBid(w, args) ==
    IF ~HasAuction(w, args.auctionId) THEN w
    ELSE [w EXCEPT !.cache[args.auctionId] =
            [SetStatus(@, args.adUnitCode, args.bidId, "no-bid") EXCEPT !.noBids =
                Append(@, [adUnitCode |-> args.adUnitCode, bidder |-> args.bidder])]]

RECURSIVE TimeoutBids(_, _)
TimeoutBids(w, entries) ==
    IF entries = <<>> THEN w
    ELSE LET bid == Head(entries)
             next == IF ~HasAuction(w, bid.auctionId) THEN w
                     ELSE [w EXCEPT !.cache[bid.auctionId] =
                            [SetStatus(@, bid.adUnitCode, bid.bidId, "timeout")
                                EXCEPT !.timeouts =
                                    Append(@, [adUnitCode |-> bid.adUnitCode,
                                               bidder |-> bid.bidder])]]
         IN  TimeoutBids(next, Tail(entries))

\* mutant: an entry whose auction has no record ends the handling of the list
handleBidTimeout_StopsAtUnknown(w, args) ==
    IF ~args.isArray THEN w
    ELSE LET unknown == {k \in 1..Len(args.entries) :
                            ~HasAuction(w, args.entries[k].auctionId)}
             last == IF unknown = {} THEN Len(args.entries)
                     ELSE (CHOOSE k \in unknown : \A j \in unknown : k <= j) - 1
         IN  TimeoutBids(w, SubSeq(args.entries, 1, last))

handleBidTimeout(w, args) ==
    IF ~args.isArray THEN w ELSE TimeoutBids(w, args.entries)

\* the forEach of handleBidderDone; it ends early where the callback throws:
\* cachedBid.serverResponseTime = ... with cachedBid undefined
RECURSIVE DoneBids(_, _)
DoneBids(auctionCache, bids) ==
    IF bids = <<>> THEN auctionCache
    ELSE LET bid == Head(bids) IN
         IF ~HasKey(auctionCache.adUnits, bid.adUnitCode)
         THEN DoneBids(auctionCache, Tail(bids))
         ELSE LET cached == AdUnitOf(auctionCache, bid.adUnitCode).bids
                  i == IndexOfKey(cached, bid.bidId)
              IN  IF i = 0
                  THEN IF bid.serverResponseTimeMs # NoNum
                       THEN auctionCache
                       ELSE DoneBids(auctionCache, Tail(bids))
                  ELSE LET forced == IF cached[i].status = "pending"
                                     THEN [cached EXCEPT ![i].status = "no-bid"]
                                     ELSE cached
                           timed == IF bid.serverResponseTimeMs # NoNum
                                    THEN [forced EXCEPT ![i].serverResponseTime =
                                                            bid.serverResponseTimeMs]
                                    ELSE forced
                       IN  DoneBids(WithBids(auctionCache, bid.adUnitCode, timed),
                                    Tail(bids))

\* mutant: every bid reported done gets the status no-bid, whatever its status
handleBidderDone_AnyStatus(w, args) ==
    IF ~HasAuction(w, args.auctionId) THEN w
    ELSE [w EXCEPT !.cache[args.auctionId] =
            MapBids(@, LAMBDA bid :
                        IF \E k \in 1..Len(args.bids) : args.bids[k].bidId = bid.key
                        THEN [bid EXCEPT !.status = "no-bid"] ELSE bid)]

handleBidderDone(w, args) ==
    IF ~HasAuction(w, args.auctionId) THEN w
    ELSE [w EXCEPT !.cache[args.auctionId] = DoneBids(@, args.bids)]

\* mutant: the error of a bidder the record does not know is not logged
handleBidderError_KnownOnly(w, args) ==
    LET effectiveAuctionId == IF args.auctionId # NoId THEN args.auctionId
                              ELSE args.bidderRequestAuctionId
    IN  IF ~HasAuction(w, effectiveAuctionId) THEN w
        ELSE IF \A i \in 1..Len(w.cache[effectiveAuctionId].bidderRequests) :
                    w.cache[effectiveAuctionId].bidderRequests[i] # args.bidderCode
             THEN w
        ELSE LET logged == [w.cache[effectiveAuctionId] EXCEPT !.errors =
                                Append(@, [bidder |-> args.bidderCode,
                                           message |-> IF args.errorMessage # Null
                                                       THEN args.errorMessage
                                                       ELSE "Unknown error",
                                           status |-> args.errorStatus])]
                 mark(bid) == IF bid.bidder = args.bidderCode /\ bid.status = "pending"
                              THEN [bid EXCEPT !.status = "error"] ELSE bid
             IN  [w EXCEPT !.cache[effectiveAuctionId] = MapBids(logged, mark)]

handleBidderError(w, args) ==
    LET effectiveAuctionId == IF args.auctionId # NoId THEN args.auctionId
                              ELSE args.bidderRequestAuctionId
    IN  IF ~HasAuction(w, effectiveAuctionId) THEN w
        ELSE LET logged == [w.cache[effectiveAuctionId] EXCEPT !.errors =
                                Append(@, [bidder |-> args.bidderCode,
                                           message |-> IF args.errorMessage # Null
                                                       THEN args.errorMessage
                                                       ELSE "Unknown error",
                                           status |-> args.errorStatus])]
                 mark(bid) == IF bid.bidder = args.bidderCode /\ bid.status = "pending"
                              THEN [bid EXCEPT !.status = "error"] ELSE bid
             IN  [w EXCEPT !.cache[effectiveAuctionId] = MapBids(logged, mark)]

-----------------------------------------------------------------------------
(* Payload formatters *)

WinnerOf(auctionCache, code) == auctionCache.winningBids[code]
HasWinner(auctionCache, code) == code \in DOMAIN auctionCache.winningBids

\* winningBid?.bidder || null and winningBid?.cpmUsd || null
WinningBidder(auctionCache, code) ==
    IF HasWinner(auctionCache, code) THEN WinnerOf(auctionCache, code).bidder ELSE Null
WinningCpm(auctionCache, code) ==
    IF HasWinner(auctionCache, code) /\ Truthy(WinnerOf(auctionCache, code).cpmUsd)
    THEN WinnerOf(auctionCache, code).cpmUsd ELSE NoNum

\* winner cpmUsd - own cpmUsd when both are truthy (1/1000 units: toFixed(3) is exact)
Margin(winnerCpmUsd, ownCpmUsd) ==
    IF Truthy(winnerCpmUsd) /\ Truthy(ownCpmUsd) THEN [isNull |-> FALSE,
                                                        value |-> winnerCpmUsd - ownCpmUsd]
    ELSE [isNull |-> TRUE, value |-> 0]

RECURSIVE Flatten(_)
Flatten(ss) == IF ss = <<>> THEN <<>> ELSE Head(ss) \o Flatten(Tail(ss))

\* avgResponseTime and avgCpm are left out of the model
extractKargoMetrics(auctionCache) ==
    LET rows(adUnit) ==
            LET own == SelectSeq(adUnit.bids, LAMBDA b : b.isKargo)
            IN  [j \in 1..Len(own) |->
                    [adUnitCode |-> adUnit.key,
                     status |-> own[j].status,
                     cpm |-> own[j].cpmUsd,
                     responseTime |-> own[j].responseTime,
                     won |-> own[j].won,
                     winningBidder |-> WinningBidder(auctionCache, adUnit.key),
                     winningCpm |-> WinningCpm(auctionCache, adUnit.key),
                     marginToWin |-> Margin(WinningCpm(auctionCache, adUnit.key),
                                            own[j].cpmUsd),
                     rank |-> calculateRank(adUnit, own[j].cpmUsd)]]
        kargoBids == Flatten([i \in 1..Len(auctionCache.adUnits) |->
                                rows(auctionCache.adUnits[i])])
    IN  [bidCount |-> Len(kargoBids),
         bids |-> kargoBids,
         winCount |-> Len(SelectSeq(kargoBids, LAMBDA b : b.won))]

\* mutant: the received count is the number of BidRecords with status received
auctionCounts_ReceivedRecords(auctionCache) ==
    [bidderCount |-> Len(auctionCache.bidderRequests),
     totalBidsRequested |-> countTotalBids(auctionCache),
     totalBidsReceived |->
        SeqSum([i \in 1..Len(auctionCache.adUnits) |->
                    Len(SelectSeq(auctionCache.adUnits[i].bids,
                                  LAMBDA b : b.status = "received"))]),
     totalNoBids |-> Len(auctionCache.noBids),
     totalTimeouts |-> Len(auctionCache.timeouts),
     totalErrors |-> Len(auctionCache.errors)]

\* the aggregate counts of the auction payload (its `auction` object)
auctionCounts(auctionCache) ==
    [bidderCount |-> Len(auctionCache.bidderRequests),
     totalBidsRequested |-> countTotalBids(auctionCache),
     totalBidsReceived |-> Len(auctionCache.bidsReceived),
     totalNoBids |-> Len(auctionCache.noBids),
     totalTimeouts |-> Len(auctionCache.timeouts),
     totalErrors |-> Len(auctionCache.errors)]

formatAuctionPayload(auctionId, auctionCache) ==
    [kind |-> "auction",
     auctionId |-> auctionId,
     auctionTimeout |-> auctionCache.timeout,
     auctionDuration |-> auctionCache.duration,
     pageUrl |-> auctionCache.referer,
     consent |-> auctionCache.consent,
     kargo |-> extractKargoMetrics(auctionCache),
     auction |-> auctionCounts(auctionCache),
     adUnits |-> [i \in 1..Len(auctionCache.adUnits) |->
                    LET adUnit == auctionCache.adUnits[i]
                    IN  [code |-> adUnit.key,
                         bidders |-> [j \in 1..Len(adUnit.bids) |->
                                        LET bid == adUnit.bids[j]
                                        IN  [bidder |-> bid.bidder,
                                             status |-> bid.status,
                                             cpm |-> IF bid.status = "received"
                                                     THEN bid.cpmUsd ELSE NoNum,
                                             responseTime |-> IF Truthy(bid.responseTime)
                                                              THEN bid.responseTime
                                                              ELSE NoNum,
                                             isKargo |-> bid.isKargo,
                                             won |-> bid.won]],
                         winningBidder |-> WinningBidder(auctionCache, adUnit.key),
                         winningCpm |-> WinningCpm(auctionCache, adUnit.key)]],
     errors |-> auctionCache.errors]

NoPayload == [kind |-> "none"]

\* mutant: any bidder's bid on the slot counts as the adapter's own
formatWinPayload_AnyBidder(auctionId, adUnitCode, auctionCache) ==
    IF ~HasWinner(auctionCache, adUnitCode) THEN NoPayload
    ELSE LET winningBid == WinnerOf(auctionCache, adUnitCode)
             declared == HasKey(auctionCache.adUnits, adUnitCode)
             own == IF declared THEN AdUnitOf(auctionCache, adUnitCode).bids ELSE <<>>
         IN  [kind |-> "win",
              auctionId |-> auctionId,
              adUnitCode |-> adUnitCode,
              winner |-> [bidder |-> winningBid.bidder,
                          cpm |-> winningBid.cpm,
                          cpmUsd |-> winningBid.cpmUsd],
              kargo |-> IF own # <<>>
                        THEN [participated |-> TRUE,
                              cpm |-> own[1].cpmUsd,
                              margin |-> Margin(winningBid.cpmUsd, own[1].cpmUsd),
                              rank |-> calculateRank(AdUnitOf(auctionCache, adUnitCode),
                                                     own[1].cpmUsd)]
                        ELSE [participated |-> FALSE,
                              cpm |-> NoNum,
                              margin |-> NoNum,
                              rank |-> NoNum]]

formatWinPayload(auctionId, adUnitCode, auctionCache) ==
    IF ~HasWinner(auctionCache, adUnitCode) THEN NoPayload
    ELSE LET winningBid == WinnerOf(auctionCache, adUnitCode)
             declared == HasKey(auctionCache.adUnits, adUnitCode)
             own == IF declared
                    THEN SelectSeq(AdUnitOf(auctionCache, adUnitCode).bids,
                                   LAMBDA b : b.isKargo)
                    ELSE <<>>
         IN  [kind |-> "win",
              auctionId |-> auctionId,
              adUnitCode |-> adUnitCode,
              winner |-> [bidder |-> winningBid.bidder,
                          cpm |-> winningBid.cpm,
                          cpmUsd |-> winningBid.cpmUsd],
              kargo |-> IF own # <<>>
                        THEN [participated |-> TRUE,
                              cpm |-> own[1].cpmUsd,
                              margin |-> Margin(winningBid.cpmUsd, own[1].cpmUsd),
                              rank |-> calculateRank(AdUnitOf(auctionCache, adUnitCode),
                                                     own[1].cpmUsd)]
                        ELSE [participated |-> FALSE,
                              cpm |-> NoNum,
                              margin |-> NoNum,
                              rank |-> NoNum]]

-----------------------------------------------------------------------------
(* Data transmission *)

\* cleanupAuction: arms the 30 s eviction timer
cleanupAuction(w, auctionId) ==
    [w EXCEPT !.cleanupTimers = Bump(@, auctionId)]

\* ajax(url, callbacks, body): the call is logged; threw says that it threw
Ajax(w, kind, auctionId, adUnitCode, payload, threw) ==
    [w EXCEPT !.posts = Append(@, [kind |-> kind, auctionId |-> auctionId,
                                   gen |-> w.cache[auctionId].gen,
                                   adUnitCode |-> adUnitCode, threw |-> threw]),
              !.payloads[w.cache[auctionId].gen] =
                                      IF kind = "auction"
                                      THEN [@ EXCEPT !.auction = payload]
                                      ELSE [@ EXCEPT !.win = payload]]

\* mutant: the record is left unsent
MarkSent_Skipped(w, auctionId) == w

MarkSent(w, auctionId) == [w EXCEPT !.cache[auctionId].sent = TRUE]

\* mutant: an auction without ad units is marked sent without being posted
Deliver_SkipsEmpty(w, auctionId, threw) ==
    IF ~w.sampled \/ w.cache[auctionId].adUnits = <<>>
    THEN cleanupAuction(MarkSent(w, auctionId), auctionId)
    ELSE LET auctionCache == w.cache[auctionId]
             called == Ajax(w, "auction", auctionId, Null,
                            formatAuctionPayload(auctionId, auctionCache), threw)
         IN  IF threw THEN cleanupAuction(MarkSent(called, auctionId), auctionId)
             ELSE [called EXCEPT !.inflight =
                        Append(@, [auctionId |-> auctionId, gen |-> auctionCache.gen])]

\* the body of sendAuctionAnalytics after its guard
Deliver(w, auctionId, threw) ==
    IF ~w.sampled THEN cleanupAuction(MarkSent(w, auctionId), auctionId)
    ELSE LET auctionCache == w.cache[auctionId]
             called == Ajax(w, "auction", auctionId, Null,
                            formatAuctionPayload(auctionId, auctionCache), threw)
         IN  IF threw THEN cleanupAuction(MarkSent(called, auctionId), auctionId)
             ELSE [called EXCEPT !.inflight =
                        Append(@, [auctionId |-> auctionId, gen |-> auctionCache.gen])]

\* mutant: the guard looks for the record only, not at its sent flag
sendAuctionAnalytics_NoSentGuard(w, auctionId, threw) ==
    IF ~HasAuction(w, auctionId) THEN w ELSE Deliver(w, auctionId, threw)

sendAuctionAnalytics(w, auctionId, threw) ==
    IF ~HasAuction(w, auctionId) \/ w.cache[auctionId].sent THEN w
    ELSE Deliver(w, auctionId, threw)

\* the success or error callback of the auction POST; it holds the record object
\* it was created for (gen), and cleans up by auction id
\* (success and error do the same but for the logging)

\* mutant: the error callback leaves the record as it is
ajaxCallback_ErrorIgnored(w, call, outcome) ==
    IF outcome = "error" THEN w
    ELSE cleanupAuction(IF HasAuction(w, call.auctionId)
                           /\ w.cache[call.auctionId].gen = call.gen
                        THEN MarkSent(w, call.auctionId) ELSE w,
                        call.auctionId)

ajaxCallback(w, call, outcome) ==
    LET marked == IF HasAuction(w, call.auctionId)
                     /\ w.cache[call.auctionId].gen = call.gen
                  THEN MarkSent(w, call.auctionId) ELSE w
    IN  cleanupAuction(marked, call.auctionId)

\* mutant: the win payload is sent whatever the sampling decision
sendWinAnalytics_IgnoresSampling(w, auctionId, adUnitCode, threw) ==
    IF ~HasAuction(w, auctionId) THEN w
    ELSE LET payload == formatWinPayload(auctionId, adUnitCode, w.cache[auctionId])
         IN  IF payload = NoPayload THEN w
             ELSE Ajax(w, "win", auctionId, adUnitCode, payload, threw)

sendWinAnalytics(w, auctionId, adUnitCode, threw) ==
    IF ~HasAuction(w, auctionId) THEN w
    ELSE IF ~w.sampled THEN w
    ELSE LET payload == formatWinPayload(auctionId, adUnitCode, w.cache[auctionId])
         IN  IF payload = NoPayload THEN w
             ELSE Ajax(w, "win", auctionId, adUnitCode, payload, threw)

\* mutant: the eviction empties the whole cache
cleanupFire_ClearsAll(w, auctionId) == [w EXCEPT !.cache = <<>>]

\* the callback of cleanupAuction's timer
cleanupFire(w, auctionId) == [w EXCEPT !.cache = Remove(@, auctionId)]

-----------------------------------------------------------------------------
(* AUCTION_END and BID_WON *)

\* highest: the outcome of getGlobal().getHighestCpmBids()
RECURSIVE RecordHighest(_, _, _, _)
RecordHighest(auctionCache, auctionId, bids, conv) ==
    IF bids = <<>> THEN auctionCache
    ELSE LET bid == Head(bids)
             next == IF bid.auctionId = auctionId
                     THEN [auctionCache EXCEPT !.winningBids =
                            Put(@, bid.adUnitCode,
                                [bidder |-> bid.bidderCode,
                                 cpm |-> bid.cpm,
                                 cpmUsd |-> convertToUsd(bid.cpm, bid.currency, conv),
                                 bidId |-> bid.requestId,
                                 won |-> FALSE])]
                     ELSE auctionCache
         IN  RecordHighest(next, auctionId, Tail(bids), conv)

\* auctionCache.endTimestamp = Date.now(); duration = endTimestamp - timestamp
StampEnd(auctionCache, time) ==
    [auctionCache EXCEPT !.endTimestamp = time,
                         !.duration = time - auctionCache.timestamp]

\* mutant: the debounce timer is armed before the record is looked up
handleAuctionEnd_ArmsFirst(w, args, host) ==
    IF args.auctionId \notin AuctionIds THEN w
    ELSE IF ~HasAuction(w, args.auctionId) \/ w.cache[args.auctionId].sent
         THEN [w EXCEPT !.sendTimers = Bump(@, args.auctionId)]
         ELSE [w EXCEPT !.cache[args.auctionId] =
                            LET ended == StampEnd(@, w.now)
                            IN  IF host.highest.throws THEN ended
                                ELSE RecordHighest(ended, args.auctionId,
                                                   host.highest.bids, host.conv),
                        !.sendTimers = Bump(@, args.auctionId)]

\* mutant: the query for the highest bids is made outside a try block, so that
\* its failure ends the handler before the timer is armed
handleAuctionEnd_QueryUnguarded(w, args, host) ==
    IF ~HasAuction(w, args.auctionId) \/ w.cache[args.auctionId].sent THEN w
    ELSE LET ended == StampEnd(w.cache[args.auctionId], w.now)
         IN  IF host.highest.throws
             THEN [w EXCEPT !.cache[args.auctionId] = ended]
             ELSE [w EXCEPT !.cache[args.auctionId] =
                                RecordHighest(ended, args.auctionId,
                                              host.highest.bids, host.conv),
                            !.sendTimers = Bump(@, args.auctionId)]

handleAuctionEnd(w, args, host) ==
    IF ~HasAuction(w, args.auctionId) \/ w.cache[args.auctionId].sent THEN w
    ELSE LET ended == StampEnd(w.cache[args.auctionId], w.now)
             looked == IF host.highest.throws THEN ended
                       ELSE RecordHighest(ended, args.auctionId,
                                          host.highest.bids, host.conv)
         IN  [w EXCEPT !.cache[args.auctionId] = looked,
                       !.sendTimers = Bump(@, args.auctionId)]

\* the first half of handleBidWon: the winner entry and the won flags
RecordWin(w, args, host) ==
    LET winner == [bidder |-> args.bidderCode,
                   cpm |-> args.cpm,
                   cpmUsd |-> convertToUsd(args.cpm, args.currency, host.conv),
                   bidId |-> args.requestId,
                   won |-> TRUE]
        recorded == [w.cache[args.auctionId] EXCEPT !.winningBids =
                        Put(@, args.adUnitCode, winner)]
        mark(bid) == IF bid.bidId = args.requestId \/ bid.bidder = args.bidderCode
                     THEN [bid EXCEPT !.won = TRUE] ELSE bid
        marked == IF HasKey(recorded.adUnits, args.adUnitCode)
                  THEN WithBids(recorded, args.adUnitCode,
                            [j \in 1..Len(AdUnitOf(recorded, args.adUnitCode).bids) |->
                                mark(AdUnitOf(recorded, args.adUnitCode).bids[j])])
                  ELSE recorded
    IN  [w EXCEPT !.cache[args.auctionId] = marked]

\* mutant: a slot's win event is sent for its first bid-won only
handleBidWon_OncePerSlot(w, args, host) ==
    IF ~HasAuction(w, args.auctionId) THEN w
    ELSE IF /\ w.config.sendWinEvents
            /\ ~w.cache[args.auctionId].sent
            /\ ~(/\ HasWinner(w.cache[args.auctionId], args.adUnitCode)
                 /\ WinnerOf(w.cache[args.auctionId], args.adUnitCode).won)
         THEN sendWinAnalytics(RecordWin(w, args, host), args.auctionId,
                               args.adUnitCode, host.ajaxThrows)
         ELSE RecordWin(w, args, host)

\* mutant: the win event is sent without looking at the sent flag
handleBidWon_IgnoresSent(w, args, host) ==
    IF ~HasAuction(w, args.auctionId) THEN w
    ELSE IF w.config.sendWinEvents
         THEN sendWinAnalytics(RecordWin(w, args, host), args.auctionId,
                               args.adUnitCode, host.ajaxThrows)
         ELSE RecordWin(w, args, host)

handleBidWon(w, args, host) ==
    IF ~HasAuction(w, args.auctionId) THEN w
    ELSE IF w.config.sendWinEvents /\ ~w.cache[args.auctionId].sent
         THEN sendWinAnalytics(RecordWin(w, args, host), args.auctionId,
                               args.adUnitCode, host.ajaxThrows)
         ELSE RecordWin(w, args, host)

-----------------------------------------------------------------------------
(* Adapter definition *)

\* mutant: the draw is compared with one less than the rate
shouldSample_OneLess(w, draw) ==
    LET samplingRate == IF Truthy(w.config.sampling) THEN w.config.sampling ELSE 100
    IN  draw < samplingRate - 1

\* Math.random() * 100 < samplingRate, draw being the integer part of the product
shouldSample(w, draw) ==
    LET samplingRate == IF Truthy(w.config.sampling) THEN w.config.sampling ELSE 100
    IN  draw < samplingRate

\* mutant: the sendWinEvents option is not read
enableAnalytics_WinEventsKept(w, opts, draw) ==
    LET merged == [sampling |-> IF opts.sampling # NoNum
                                THEN opts.sampling ELSE DEFAULT_CONFIG.sampling,
                   sendWinEvents |-> DEFAULT_CONFIG.sendWinEvents,
                   sendDelay |-> IF opts.sendDelay # NoNum
                                 THEN opts.sendDelay ELSE DEFAULT_CONFIG.sendDelay]
        valid == IF merged.sampling < 1 \/ merged.sampling > 100
                 THEN [merged EXCEPT !.sampling = 100] ELSE merged
        configured == [w EXCEPT !.config = valid]
    IN  [configured EXCEPT !.sampled = shouldSample(configured, draw),
                           !.enabled = TRUE]

\* opts: a field that is NoNum / "unset" is not given and keeps its default
enableAnalytics(w, opts, draw) ==
    LET merged == [sampling |-> IF opts.sampling # NoNum
                                THEN opts.sampling ELSE DEFAULT_CONFIG.sampling,
                   sendWinEvents |-> IF opts.sendWinEvents = "unset"
                                     THEN DEFAULT_CONFIG.sendWinEvents
                                     ELSE opts.sendWinEvents = "true",
                   sendDelay |-> IF opts.sendDelay # NoNum
                                 THEN opts.sendDelay ELSE DEFAULT_CONFIG.sendDelay]
        valid == IF merged.sampling < 1 \/ merged.sampling > 100
                 THEN [merged EXCEPT !.sampling = 100] ELSE merged
        configured == [w EXCEPT !.config = valid]
    IN  [configured EXCEPT !.sampled = shouldSample(configured, draw),
                           !.enabled = TRUE]

\* mutant: the cache is left as it is
disableAnalytics_KeepsCache(w) ==
    [w EXCEPT !.config = DEFAULT_CONFIG,
              !.sampled = TRUE,
              !.enabled = FALSE]

disableAnalytics(w) ==
    [w EXCEPT !.config = DEFAULT_CONFIG,
              !.sampled = TRUE,
              !.cache = <<>>,
              !.enabled = FALSE]

\* the event kinds eventHandlers has a handler for
Handled == {"auctionInit", "bidRequested", "bidResponse", "noBid", "bidTimeout",
            "bidderDone", "bidderError", "auctionEnd", "bidWon"}

\* whether the handler of the event throws. On the events of the model only
\* handleBidderDone does: its forEach callback throws a TypeError at
\* `cachedBid.serverResponseTime = ...` when the ad unit has no bid of that id
handlerThrows(w, eventType, args) ==
    /\ eventType = "bidderDone"
    /\ HasAuction(w, args.auctionId)
    /\ \E k \in 1..Len(args.bids) :
          LET bid == args.bids[k]
              auctionCache == w.cache[args.auctionId]
          IN  /\ HasKey(auctionCache.adUnits, bid.adUnitCode)
              /\ ~HasKey(AdUnitOf(auctionCache, bid.adUnitCode).bids, bid.bidId)
              /\ bid.serverResponseTimeMs # NoNum

\* mutant: the handler is called outside a try block
trackThrows_NoCatch(w, eventType, args) ==
    eventType \in Handled /\ handlerThrows(w, eventType, args)

\* whether track throws to its caller: the handler is looked up and called
\* inside try { } catch (err) { logError(...) }, which takes every exception
trackThrows(w, eventType, args) ==
    LET thrown == eventType \in Handled /\ handlerThrows(w, eventType, args)
        caught == thrown
    IN  thrown /\ ~caught

\* track({eventType, args}): an event kind without a handler is ignored; the
\* state a throwing handler leaves is what it had done before it threw
track(w, eventType, args, host) ==
    CASE eventType = "auctionInit" -> handleAuctionInit(w, args)
      [] eventType = "bidRequested" -> handleBidRequested(w, args)
      [] eventType = "bidResponse" -> handleBidResponse(w, args, host.conv)
      [] eventType = "noBid" -> handleNoBid(w, args)
      [] eventType = "bidTimeout" -> handleBidTimeout(w, args)
      [] eventType = "bidderDone" -> handleBidderDone(w, args)
      [] eventType = "bidderError" -> handleBidderError(w, args)
      [] eventType = "auctionEnd" -> handleAuctionEnd(w, args, host)
      [] eventType = "bidWon" -> handleBidWon(w, args, host)
      [] OTHER -> w

-----------------------------------------------------------------------------
(* The state machine *)

World ==
    [cache |-> cache, config |-> config, sampled |-> sampled,
     sendTimers |-> sendTimers, cleanupTimers |-> cleanupTimers,
     inflight |-> inflight, posts |-> posts, payloads |-> payloads,
     enabled |-> enabled, nextGen |-> nextGen, now |-> now]

Apply(w) ==
    /\ cache' = w.cache
    /\ config' = w.config
    /\ sampled' = w.sampled
    /\ sendTimers' = w.sendTimers
    /\ cleanupTimers' = w.cleanupTimers
    /\ inflight' = w.inflight
    /\ posts' = w.posts
    /\ payloads' = w.payloads
    /\ enabled' = w.enabled
    /\ nextGen' = w.nextGen
    /\ now' = w.now
    /\ UNCHANGED <<lastPageUrl, requestCounter, pathname, requests>>

\* the bounds of the model, as guards on the state an action leads to
Bounded(w) ==
    /\ w.nextGen <= MaxGen + 1
    /\ Len(w.posts) <= MaxPosts
    /\ \A a \in AuctionIds : /\ w.sendTimers[a] <= MaxTimers
                             /\ w.cleanupTimers[a] <= MaxTimers

NoEvent == [kind |-> "none", auctionId |-> NoId, adUnitCode |-> Null,
            hadRecord |-> FALSE, args |-> <<>>, conv |-> "absent",
            failed |-> FALSE, escaped |-> FALSE]
NoOptions == [sampling |-> NoNum, sendWinEvents |-> "unset", sendDelay |-> NoNum,
              given |-> FALSE]
NoInit == [auctionId |-> NoId, timeout |-> NoNum, adUnits |-> <<>>, bidderRequests |-> <<>>]

\* the records (objects) that can be created within the bounds
Gens == 1..MaxGen

\* the body of the latest ajax call
LastPayload ==
    IF posts = <<>> THEN NoPayload
    ELSE LET last == posts[Len(posts)]
         IN  IF last.kind = "auction" THEN payloads[last.gen].auction
             ELSE payloads[last.gen].win

\* the (slot, bidder) pairs an event asks a bid of or reports a response of
RECURSIVE AskedOf(_, _)
AskedOf(bidderCode, bids) ==
    IF bids = <<>> THEN {}
    ELSE {<<Head(bids).adUnitCode, bidderCode>>} \cup AskedOf(bidderCode, Tail(bids))

Involved(eventType, args) ==
    CASE eventType = "bidRequested" -> AskedOf(args.bidderCode, args.bids)
      [] eventType = "bidResponse" ->
            {<<args.adUnitCode,
               IF args.bidderCode # Null THEN args.bidderCode ELSE args.bidder>>}
      [] OTHER -> {}

Start(maxEvents) ==
    /\ budget = maxEvents
    /\ cache = <<>>
    /\ config = DEFAULT_CONFIG
    /\ sampled = TRUE
    /\ sendTimers = [a \in AuctionIds |-> 0]
    /\ cleanupTimers = [a \in AuctionIds |-> 0]
    /\ inflight = <<>>
    /\ posts = <<>>
    /\ payloads = [g \in Gens |-> [auction |-> NoPayload, win |-> NoPayload]]
    /\ enabled = FALSE
    /\ lastEvent = NoEvent
    /\ nEvents = 0
    /\ nextGen = 1
    /\ options = NoOptions
    /\ inits = [g \in Gens |-> NoInit]
    /\ participants = [g \in Gens |-> {}]
    /\ now = 0
    /\ lastPageUrl = Null
    /\ requestCounter = NoNum
    /\ pathname = "/"
    /\ requests = <<>>

Init == Start(MaxEvents)

\* the host calls enableAnalytics(config); the base adapter ignores the call
\* while the adapter is enabled
EnableAnalytics(opts, draw) ==
    /\ ~enabled
    /\ Apply(enableAnalytics(World, opts, draw))
    /\ options' = [opts EXCEPT !.given = TRUE]
    /\ UNCHANGED <<lastEvent, nEvents, inits, participants, budget>>

DisableAnalytics ==
    /\ enabled
    /\ nEvents < budget
    /\ Apply(disableAnalytics(World))
    /\ nEvents' = nEvents + 1
    /\ lastEvent' = [NoEvent EXCEPT !.kind = "disable"]
    /\ UNCHANGED <<options, inits, participants, budget>>

\* the host emits an event; the base adapter hands it to track()
Emit(eventType, args, host, auctionId, adUnitCode) ==
    /\ LET w == track(World, eventType, args, host)
       IN  Bounded(w) /\ Apply(w)
    /\ nEvents' = nEvents + 1
    /\ lastEvent' = [kind |-> eventType, auctionId |-> auctionId,
                     adUnitCode |-> adUnitCode,
                     hadRecord |-> auctionId \in DOMAIN cache,
                     args |-> IF eventType = "auctionInit" THEN <<>> ELSE args,
                     conv |-> host.conv,
                     failed |-> handlerThrows(World, eventType, args),
                     escaped |-> trackThrows(World, eventType, args)]
    /\ inits' = IF eventType = "auctionInit" /\ auctionId # NoId
                THEN [inits EXCEPT ![nextGen] = args] ELSE inits
    /\ participants' =
            IF eventType = "auctionInit" \/ auctionId \notin DOMAIN cache
            THEN participants
            ELSE [participants EXCEPT ![cache[auctionId].gen] =
                        @ \cup Involved(eventType, args)]
    /\ UNCHANGED <<options, budget>>

\* the base adapter delivers events only while enabled
Listening == enabled /\ nEvents < budget

AuctionInit(args) ==
    /\ Listening
    /\ Emit("auctionInit", args, [conv |-> "absent"], args.auctionId, Null)

BidRequested(args) ==
    /\ Listening
    /\ Emit("bidRequested", args, [conv |-> "absent"], args.auctionId,
            IF args.bids = <<>> THEN Null ELSE args.bids[1].adUnitCode)

BidResponse(args, conv) ==
    /\ Listening
    /\ Emit("bidResponse", args, [conv |-> conv], args.auctionId, args.adUnitCode)

NoBid(args) ==
    /\ Listening
    /\ Emit("noBid", args, [conv |-> "absent"], args.auctionId, args.adUnitCode)

BidTimeout(args) ==
    /\ Listening
    /\ Emit("bidTimeout", args, [conv |-> "absent"],
            IF args.entries = <<>> THEN NoId ELSE args.entries[1].auctionId,
            IF args.entries = <<>> THEN Null ELSE args.entries[1].adUnitCode)

BidderDone(args) ==
    /\ Listening
    /\ Emit("bidderDone", args, [conv |-> "absent"], args.auctionId,
            IF args.bids = <<>> THEN Null ELSE args.bids[1].adUnitCode)

BidderError(args) ==
    /\ Listening
    /\ Emit("bidderError", args, [conv |-> "absent"],
            IF args.auctionId # NoId THEN args.auctionId
            ELSE args.bidderRequestAuctionId,
            Null)

AuctionEnd(args, highest, conv) ==
    /\ Listening
    /\ Emit("auctionEnd", args, [conv |-> conv, highest |-> highest],
            args.auctionId, Null)

BidWon(args, conv, ajaxThrows) ==
    /\ Listening
    /\ Emit("bidWon", args, [conv |-> conv, ajaxThrows |-> ajaxThrows],
            args.auctionId, args.adUnitCode)

\* the host emits an event of a kind the adapter has no handler for
OtherEvent(eventType) ==
    /\ Listening
    /\ Emit(eventType, <<>>, [conv |-> "absent"], NoId, Null)

\* the debounce timer armed by handleAuctionEnd fires
SendTimerFires(auctionId, ajaxThrows) ==
    /\ sendTimers[auctionId] > 0
    /\ LET w == sendAuctionAnalytics(
                    [World EXCEPT !.sendTimers[auctionId] = @ - 1], auctionId, ajaxThrows)
       IN  Bounded(w) /\ Apply(w)
    /\ UNCHANGED <<lastEvent, nEvents, options, inits, participants, budget>>

\* the network call of an auction POST completes, with success or with an error
AjaxCompletes(i, outcome) ==
    /\ i \in 1..Len(inflight)
    /\ LET w == ajaxCallback(
                    [World EXCEPT !.inflight = SubSeq(@, 1, i - 1) \o SubSeq(@, i + 1, Len(@))],
                    inflight[i], outcome)
       IN  Bounded(w) /\ Apply(w)
    /\ UNCHANGED <<lastEvent, nEvents, options, inits, participants, budget>>

\* the eviction timer armed by cleanupAuction fires
CleanupTimerFires(auctionId) ==
    /\ cleanupTimers[auctionId] > 0
    /\ Apply(cleanupFire([World EXCEPT !.cleanupTimers[auctionId] = @ - 1], auctionId))
    /\ UNCHANGED <<lastEvent, nEvents, options, inits, participants, budget>>

\* the clock behind Date.now() advances
Tick ==
    /\ now < MaxNow
    /\ now' = now + 1
    /\ UNCHANGED <<cache, config, sampled, sendTimers, cleanupTimers, inflight, enabled,
                   nextGen, posts, payloads, lastEvent, nEvents, options, inits,
                   participants, budget, lastPageUrl, requestCounter, pathname,
                   requests>>

-----------------------------------------------------------------------------
(* The events the host emits in Spec: auction a1 with the declared slot s1;   *)
(* each kind of event also comes once naming the undeclared slot s2 and once  *)
(* without an auction id.                                                     *)

BidderRequest(bidderCode, consentString, usp, gppString) ==
    [bidderCode |-> bidderCode,
     gdprConsent |-> [present |-> consentString # Null, gdprApplies |-> consentString # Null,
                      consentString |-> IF consentString = Null THEN "" ELSE consentString],
     uspConsent |-> usp,
     gppConsent |-> [present |-> gppString # Null,
                     gppString |-> IF gppString = Null THEN "" ELSE gppString,
                     applicableSections |-> IF gppString = Null THEN <<>> ELSE <<7>>],
     coppa |-> FALSE,
     page |-> "https://example.com/page"]

StdRequests == <<BidderRequest("kargo", "CONSENT-A", "1YNN", Null),
                 BidderRequest("appnexus", Null, "", Null)>>

InitArgs ==
    {[auctionId |-> a, timeout |-> 1000, adUnits |-> <<"s1">>,
      bidderRequests |-> StdRequests] : a \in {"a1", NoId}}

\* (auction id, slot) pairs: the declared slot, the undeclared one, no auction id
Targets == {<<"a1", "s1">>, <<"a1", "s2">>, <<NoId, "s1">>}
Primary(t) == t = <<"a1", "s1">>

OfferedCpm(bidder) == IF bidder = KARGO_BIDDER_CODE THEN 24 ELSE 31

RequestedArgs ==
    {[auctionId |-> t[1], bidderCode |-> b,
      bids |-> <<[bidId |-> i, adUnitCode |-> t[2]]>>] :
        <<t, b, i>> \in {x \in Targets \X Bidders \X BidIds :
                            Primary(x[1]) \/ (x[2] = "kargo" /\ x[3] = "b1")}}
    \cup {[auctionId |-> "a1", bidderCode |-> b,
           bids |-> <<[bidId |-> "b1", adUnitCode |-> "s1"],
                      [bidId |-> "b2", adUnitCode |-> "s1"]>>] : b \in {"kargo"}}

ResponseArgs ==
    {[auctionId |-> t[1], adUnitCode |-> t[2], bidder |-> b, bidderCode |-> b,
      requestId |-> i, originalRequestId |-> Null, cpm |-> OfferedCpm(b),
      currency |-> CURRENCY_USD, timeToRespond |-> 192] :
        <<t, b, i>> \in {x \in Targets \X Bidders \X BidIds :
                            Primary(x[1]) \/ (x[2] = "kargo" /\ x[3] = "b1")}}

NoBidArgs ==
    {[auctionId |-> t[1], adUnitCode |-> t[2], bidder |-> "kargo", bidId |-> i] :
        <<t, i>> \in {x \in Targets \X BidIds : Primary(x[1]) \/ x[2] = "b1"}}

TimeoutArgs ==
    {[isArray |-> TRUE, entries |-> <<e>>] : e \in NoBidArgs}
    \cup {[isArray |-> FALSE, entries |-> <<>>]}

DoneArgs ==
    {[auctionId |-> t[1],
      bids |-> <<[bidId |-> i, adUnitCode |-> t[2], serverResponseTimeMs |-> ms]>>] :
        <<t, i, ms>> \in {x \in Targets \X BidIds \X {NoNum, 30} :
                            Primary(x[1]) \/ (x[2] = "b1" /\ x[3] = NoNum)}}

ErrorArgs ==
    {[auctionId |-> ids[1], bidderRequestAuctionId |-> ids[2], bidderCode |-> b,
      errorMessage |-> "Server error", errorStatus |-> 500] :
        <<ids, b>> \in {x \in {<<"a1", "a1">>, <<NoId, "a1">>, <<NoId, NoId>>} \X Bidders :
                            x[1][1] # NoId \/ x[2] = "kargo"}}

EndArgs == {[auctionId |-> a] : a \in {"a1", NoId}}

HighestBid(bidder) ==
    [auctionId |-> "a1", adUnitCode |-> "s1", bidderCode |-> bidder,
     cpm |-> OfferedCpm(bidder), currency |-> CURRENCY_USD, requestId |-> "b1"]

Highests ==
    {[throws |-> TRUE, bids |-> <<>>], [throws |-> FALSE, bids |-> <<>>]}
    \cup {[throws |-> FALSE, bids |-> <<HighestBid(b)>>] : b \in Bidders}

WonArgs ==
    {[auctionId |-> t[1], adUnitCode |-> t[2], bidderCode |-> b, cpm |-> OfferedCpm(b),
      currency |-> CURRENCY_USD, requestId |-> i] :
        <<t, b, i>> \in {x \in Targets \X Bidders \X BidIds :
                            Primary(x[1]) \/ (x[2] = "kargo" /\ x[3] = "b1")}}

EnableOptions ==
    {[sampling |-> NoNum, sendWinEvents |-> "unset", sendDelay |-> NoNum, given |-> TRUE],
     [sampling |-> 0, sendWinEvents |-> "true", sendDelay |-> 0, given |-> TRUE],
     [sampling |-> 50, sendWinEvents |-> "false", sendDelay |-> NoNum, given |-> TRUE]}

Draws == {0, 99}

Outcomes == {"success", "error"}

Next ==
    \/ \E opts \in EnableOptions, draw \in Draws : EnableAnalytics(opts, draw)
    \/ DisableAnalytics
    \/ \E args \in InitArgs : AuctionInit(args)
    \/ \E args \in RequestedArgs : BidRequested(args)
    \/ \E args \in ResponseArgs : BidResponse(args, "absent")
    \/ \E args \in NoBidArgs : NoBid(args)
    \/ \E args \in TimeoutArgs : BidTimeout(args)
    \/ \E args \in DoneArgs : BidderDone(args)
    \/ \E args \in ErrorArgs : BidderError(args)
    \/ \E args \in EndArgs, highest \in Highests : AuctionEnd(args, highest, "absent")
    \/ \E args \in WonArgs, threw \in BOOLEAN : BidWon(args, "absent", threw)
    \/ \E a \in AuctionIds, threw \in BOOLEAN : SendTimerFires(a, threw)
    \/ \E i \in 1..MaxPosts, outcome \in Outcomes : AjaxCompletes(i, outcome)
    \/ \E a \in AuctionIds : CleanupTimerFires(a)

Spec == Init /\ [][Next]_vars

-----------------------------------------------------------------------------
(* SpecConsent: two auctions initialised with varying consent inputs, ended   *)
(* and delivered, in a session enabled with the default options.              *)

MaxConsentEvents == 4

\* <<GDPR consent string, USP string, GPP string>>: each one absent, empty and
\* with two different values
ConsentInputs ==
    {<<Null, "", Null>>, <<"", "", "">>,
     <<"CONSENT-A", "1YNN", "GPP-A">>, <<"CONSENT-B", "1YNN", "GPP-A">>,
     <<"CONSENT-A", "1YNN", "GPP-B">>, <<"CONSENT-A", "1YYN", "GPP-A">>,
     <<Null, "1YNN", Null>>}

ConsentInitArgs ==
    {[auctionId |-> a, timeout |-> 1000, adUnits |-> <<"s1">>,
      bidderRequests |-> <<BidderRequest("kargo", c[1], c[2], c[3])>>] :
        a \in AuctionIds, c \in ConsentInputs}

DefaultOptions ==
    [sampling |-> NoNum, sendWinEvents |-> "unset", sendDelay |-> NoNum, given |-> TRUE]

InitConsent == Start(MaxConsentEvents)

NextConsent ==
    \/ EnableAnalytics(DefaultOptions, 0)
    \/ \E args \in ConsentInitArgs : AuctionInit(args)
    \/ \E a \in AuctionIds :
            AuctionEnd([auctionId |-> a], [throws |-> FALSE, bids |-> <<>>], "absent")
    \/ \E a \in AuctionIds : SendTimerFires(a, FALSE)
    \/ \E i \in 1..MaxPosts : AjaxCompletes(i, "success")
    \/ \E a \in AuctionIds : CleanupTimerFires(a)

SpecConsent == InitConsent /\ [][NextConsent]_vars

-----------------------------------------------------------------------------
(* SpecClock: the life of auction a1 against an advancing clock, in a session *)
(* enabled with the default options.                                          *)

MaxClockEvents == 4

InitClock == Start(MaxClockEvents)

NextClock ==
    \/ EnableAnalytics(DefaultOptions, 0)
    \/ Tick
    \/ \E args \in InitArgs : AuctionInit(args)
    \/ \E args \in EndArgs, highest \in Highests : AuctionEnd(args, highest, "absent")
    \/ \E args \in WonArgs : BidWon(args, "absent", FALSE)
    \/ \E threw \in BOOLEAN : SendTimerFires("a1", threw)
    \/ \E i \in 1..MaxPosts, outcome \in Outcomes : AjaxCompletes(i, outcome)
    \/ CleanupTimerFires("a1")

SpecClock == InitClock /\ [][NextClock]_vars

-----------------------------------------------------------------------------
(* SpecSampling: auction a1 in sessions enabled with each kind of sampling    *)
(* percentage, with win events enabled or disabled, and each random draw.     *)

MaxSamplingEvents == 4

\* below the range, its ends, inside it, above it, and not given
SamplingValues == {NoNum, 0 - 5, 0, 1, 50, 100, 101}

SamplingOptions ==
    {[sampling |-> v, sendWinEvents |-> e, sendDelay |-> NoNum, given |-> TRUE] :
        v \in SamplingValues, e \in {"unset", "false"}}

\* the integer part of Math.random() * 100
SamplingDraws == {0, 1, 50, 99}

SamplingArgs(set) == {args \in set : args.auctionId = "a1" /\ args.adUnitCode = "s1"}

InitSampling == Start(MaxSamplingEvents)

NextSampling ==
    \/ \E opts \in SamplingOptions, draw \in SamplingDraws : EnableAnalytics(opts, draw)
    \/ \E args \in InitArgs : AuctionInit(args)
    \/ \E args \in SamplingArgs(ResponseArgs) : BidResponse(args, "absent")
    \/ \E args \in EndArgs : AuctionEnd(args, [throws |-> FALSE, bids |-> <<>>], "absent")
    \/ \E args \in SamplingArgs(WonArgs) : BidWon(args, "absent", FALSE)
    \/ SendTimerFires("a1", FALSE)
    \/ \E i \in 1..MaxPosts, outcome \in Outcomes : AjaxCompletes(i, outcome)
    \/ CleanupTimerFires("a1")

SpecSampling == InitSampling /\ [][NextSampling]_vars

-----------------------------------------------------------------------------
(* SpecFailure: auction a1 in a sampled session whose network always fails:   *)
(* the ajax call throws, or its error callback runs.                          *)

MaxFailureEvents == 4

InitFailure == Start(MaxFailureEvents)

NextFailure ==
    \/ EnableAnalytics(DefaultOptions, 0)
    \/ \E args \in InitArgs : AuctionInit(args)
    \/ \E args \in SamplingArgs(ResponseArgs) : BidResponse(args, "absent")
    \/ \E args \in EndArgs, highest \in Highests : AuctionEnd(args, highest, "absent")
    \/ \E threw \in BOOLEAN : SendTimerFires("a1", threw)
    \/ \E i \in 1..MaxPosts : AjaxCompletes(i, "error")
    \/ CleanupTimerFires("a1")

SpecFailure == InitFailure /\ [][NextFailure]_vars

-----------------------------------------------------------------------------
(* SpecCurrency: bids and wins of auction a1 with missing, non-positive and   *)
(* positive CPMs, in USD, in another currency and without a currency, while   *)
(* the host's currency conversion works, is absent, or throws.                *)

MaxCurrencyEvents == 3

\* CPMs in 1/10000: missing, zero, negative, 0.0024, 1.2345
Cpms == {NoNum, 0, 0 - 10, 24, 12345}

Currencies == {Null, CURRENCY_USD, "EUR"}

CurrencyResponseArgs ==
    {[auctionId |-> "a1", adUnitCode |-> "s1", bidder |-> "kargo", bidderCode |-> "kargo",
      requestId |-> "b1", originalRequestId |-> Null, cpm |-> c,
      currency |-> cur, timeToRespond |-> 192] : c \in Cpms, cur \in Currencies}

CurrencyWonArgs ==
    {[auctionId |-> "a1", adUnitCode |-> "s1", bidderCode |-> "kargo", cpm |-> c,
      currency |-> cur, requestId |-> "b1"] : c \in Cpms, cur \in Currencies}

InitCurrency == Start(MaxCurrencyEvents)

NextCurrency ==
    \/ EnableAnalytics(DefaultOptions, 0)
    \/ \E args \in InitArgs : AuctionInit(args)
    \/ \E args \in CurrencyResponseArgs, conv \in Conversions : BidResponse(args, conv)
    \/ \E args \in CurrencyWonArgs, conv \in Conversions : BidWon(args, conv, FALSE)

SpecCurrency == InitCurrency /\ [][NextCurrency]_vars

-----------------------------------------------------------------------------
(* SpecBids: the bid-level events of auction a1 (slot s1 declared), in a      *)
(* session enabled with the default options: requests and responses of both   *)
(* bidders, no-bids, timeout lists of two entries, bidder-done, bidder-error  *)
(* and bid-won, and events of kinds the adapter does not handle. Nothing is    *)
(* delivered: no auction-end is emitted.                                      *)

MaxBidEvents == 4

\* responses with and without an originalRequestId
BidsResponseArgs ==
    {[auctionId |-> "a1", adUnitCode |-> "s1", bidder |-> b, bidderCode |-> b,
      requestId |-> i, originalRequestId |-> o, cpm |-> OfferedCpm(b),
      currency |-> CURRENCY_USD, timeToRespond |-> 192] :
        b \in Bidders, i \in {"b2"}, o \in {Null, "b1"}}

\* the events of a set that name one bid, of slot s1 of auction a1
OnPrimaryBid(set) ==
    {args \in set : args.auctionId = "a1" /\ args.bids[1].adUnitCode = "s1"}

\* a known bid, a bid of an auction without record, a bid on an undeclared
\* slot, an entry without auction id
TimeoutEntries ==
    {[auctionId |-> t[1], adUnitCode |-> t[2], bidder |-> "kargo", bidId |-> "b1"] :
        t \in Targets \cup {<<"a2", "s1">>}}

\* the lists of two entries of which one at least is the known bid, and a
\* payload that is not a list
BidsTimeoutArgs ==
    {[isArray |-> TRUE, entries |-> <<p[1], p[2]>>] :
        p \in {q \in TimeoutEntries \X TimeoutEntries :
                    Primary(<<q[1].auctionId, q[1].adUnitCode>>)
                    \/ Primary(<<q[2].auctionId, q[2].adUnitCode>>)}}
    \cup {[isArray |-> FALSE, entries |-> <<>>]}

\* a bidder-done reporting two bids, the first with a server response time
BothDone ==
    [auctionId |-> "a1",
     bids |-> <<[bidId |-> "b2", adUnitCode |-> "s1", serverResponseTimeMs |-> 30],
                [bidId |-> "b1", adUnitCode |-> "s1", serverResponseTimeMs |-> NoNum]>>]

InitBids == Start(MaxBidEvents)

NextBids ==
    \/ EnableAnalytics(DefaultOptions, 0)
    \/ \E args \in InitArgs : AuctionInit(args)
    \/ \E args \in OnPrimaryBid(RequestedArgs) : BidRequested(args)
    \/ \E args \in BidsResponseArgs : BidResponse(args, "absent")
    \/ \E args \in SamplingArgs(NoBidArgs) : NoBid(args)
    \/ \E args \in BidsTimeoutArgs : BidTimeout(args)
    \/ \E args \in OnPrimaryBid(DoneArgs) \cup {BothDone} : BidderDone(args)
    \/ \E args \in {e \in ErrorArgs : e.bidderCode = "kargo"} : BidderError(args)
    \/ \E args \in SamplingArgs(WonArgs) : BidWon(args, "absent", FALSE)
    \/ \E eventType \in {"setTargeting", "adRenderFailed"} : OtherEvent(eventType)

SpecBids == InitBids /\ [][NextBids]_vars

-----------------------------------------------------------------------------
(* SpecDegraded: auction a1 with degraded inputs, against an advancing clock, *)
(* in a session enabled with the default options: an auction-init with empty  *)
(* ad unit and bidder lists, bidder errors of known and unknown bidders with   *)
(* and without a message, and a host whose getHighestCpmBids() always fails.   *)

MaxDegradedEvents == 3

DegradedInitArgs ==
    {[auctionId |-> "a1", timeout |-> 1000, adUnits |-> <<>>, bidderRequests |-> <<>>],
     [auctionId |-> "a1", timeout |-> 1000, adUnits |-> <<"s1">>,
      bidderRequests |-> StdRequests]}

\* the auction id on the event, or on its bidder request only, or nowhere
DegradedErrorArgs ==
    {[auctionId |-> ids[1], bidderRequestAuctionId |-> ids[2], bidderCode |-> b,
      errorMessage |-> m, errorStatus |-> 500] :
        ids \in {<<"a1", "a1">>, <<NoId, "a1">>, <<NoId, NoId>>},
        b \in {"kargo", "badBidder"},
        m \in {"Network error", Null}}

InitDegraded == Start(MaxDegradedEvents)

NextDegraded ==
    \/ EnableAnalytics(DefaultOptions, 0)
    \/ Tick
    \/ \E args \in DegradedInitArgs : AuctionInit(args)
    \/ \E args \in DegradedErrorArgs : BidderError(args)
    \/ \E args \in SamplingArgs(WonArgs) : BidWon(args, "absent", FALSE)
    \/ AuctionEnd([auctionId |-> "a1"], [throws |-> TRUE, bids |-> <<>>], "absent")
    \/ SendTimerFires("a1", FALSE)
    \/ \E i \in 1..MaxPosts : AjaxCompletes(i, "success")
    \/ CleanupTimerFires("a1")

SpecDegraded == InitDegraded /\ [][NextDegraded]_vars

-----------------------------------------------------------------------------
(* SpecRank: the bids of slot s1 of auction a1 with equal and different CPMs, *)
(* in a session enabled with the default options: up to three bids received,  *)
(* a bid received twice, statuses changed after the response, bid-won events  *)
(* of both bidders, and the auction payload delivered after the auction-end.  *)

MaxRankEvents == 5

\* <<bidder, bid id, CPM>>: 0.0024 and 0.0031, a bid without value, and a
\* third bid that ties with the first
RankResponseArgs ==
    {[auctionId |-> "a1", adUnitCode |-> "s1", bidder |-> r[1], bidderCode |-> r[1],
      requestId |-> r[2], originalRequestId |-> Null, cpm |-> r[3],
      currency |-> CURRENCY_USD, timeToRespond |-> 192] :
        r \in {<<"kargo", "b1", 24>>, <<"kargo", "b1", 31>>, <<"kargo", "b1", 0>>,
                <<"appnexus", "b2", 24>>, <<"appnexus", "b2", 31>>,
                <<"kargo", "b3", 24>>}}

InitRank == Start(MaxRankEvents)

NextRank ==
    \/ EnableAnalytics(DefaultOptions, 0)
    \/ \E args \in {i \in InitArgs : i.auctionId = "a1"} : AuctionInit(args)
    \/ \E args \in {r \in OnPrimaryBid(RequestedArgs) :
                        r.bidderCode = "kargo" /\ Len(r.bids) = 1 /\ r.bids[1].bidId = "b1"} :
            BidRequested(args)
    \/ \E args \in RankResponseArgs : BidResponse(args, "absent")
    \/ \E args \in {n \in SamplingArgs(NoBidArgs) : n.bidId = "b1"} :
            \/ NoBid(args)
            \/ BidTimeout([isArray |-> TRUE, entries |-> <<args>>])
    \/ \E args \in {e \in ErrorArgs : e.bidderCode = "kargo" /\ e.auctionId = "a1"} :
            BidderError(args)
    \/ \E args \in {x \in SamplingArgs(WonArgs) :
                        x.requestId = (IF x.bidderCode = "kargo" THEN "b1" ELSE "b2")} :
            BidWon(args, "absent", FALSE)
    \/ AuctionEnd([auctionId |-> "a1"], [throws |-> FALSE, bids |-> <<>>], "absent")
    \/ SendTimerFires("a1", FALSE)

SpecRank == InitRank /\ [][NextRank]_vars

-----------------------------------------------------------------------------
(* SpecTwo: two auctions a1 and a2 (slot s1 declared) whose events, timers    *)
(* and network callbacks interleave, in a session enabled with the default    *)
(* options; the host's getHighestCpmBids() returns the bids of both auctions, *)
(* and one bid-timeout list names both.                                       *)

MaxTwoEvents == 4

\* what the host provides while it emits an event of SpecTwo
TwoHost ==
    [conv |-> "absent", ajaxThrows |-> FALSE,
     highest |-> [throws |-> FALSE,
                  bids |-> <<[HighestBid("appnexus") EXCEPT !.auctionId = "a1"],
                             [HighestBid("kargo") EXCEPT !.auctionId = "a2"]>>]]

\* one event of each kind naming auction a
EventsOn(a) ==
    {[eventType |-> "auctionInit",
      args |-> [auctionId |-> a, timeout |-> 1000, adUnits |-> <<"s1">>,
                bidderRequests |-> StdRequests]],
     [eventType |-> "bidResponse",
      args |-> [auctionId |-> a, adUnitCode |-> "s1", bidder |-> "kargo",
                bidderCode |-> "kargo", requestId |-> "b1", originalRequestId |-> Null,
                cpm |-> OfferedCpm("kargo"), currency |-> CURRENCY_USD,
                timeToRespond |-> 192]],
     [eventType |-> "bidTimeout",
      args |-> [isArray |-> TRUE,
                entries |-> <<[auctionId |-> a, adUnitCode |-> "s1", bidder |-> "kargo",
                               bidId |-> "b1"]>>]],
     [eventType |-> "bidderError",
      args |-> [auctionId |-> NoId, bidderRequestAuctionId |-> a, bidderCode |-> "kargo",
                errorMessage |-> "Server error", errorStatus |-> 500]],
     [eventType |-> "auctionEnd", args |-> [auctionId |-> a]],
     [eventType |-> "bidWon",
      args |-> [auctionId |-> a, adUnitCode |-> "s1", bidderCode |-> "kargo",
                cpm |-> OfferedCpm("kargo"), currency |-> CURRENCY_USD,
                requestId |-> "b1"]]}

\* the args of the events of one kind, of both auctions
TwoArgs(eventType) ==
    {e.args : e \in {x \in EventsOn("a1") \cup EventsOn("a2") : x.eventType = eventType}}

InitTwo == Start(MaxTwoEvents)

NextTwo ==
    \/ EnableAnalytics(DefaultOptions, 0)
    \/ \E args \in TwoArgs("auctionInit") : AuctionInit(args)
    \/ \E args \in TwoArgs("bidResponse") : BidResponse(args, TwoHost.conv)
    \/ \E args \in TwoArgs("bidTimeout") : BidTimeout(args)
    \/ \E first, second \in TwoArgs("bidTimeout") :
            /\ first # second
            /\ BidTimeout([isArray |-> TRUE, entries |-> first.entries \o second.entries])
    \/ \E args \in TwoArgs("bidderError") : BidderError(args)
    \/ \E args \in TwoArgs("auctionEnd") : AuctionEnd(args, TwoHost.highest, TwoHost.conv)
    \/ \E args \in TwoArgs("bidWon") : BidWon(args, TwoHost.conv, TwoHost.ajaxThrows)
    \/ \E a \in AuctionIds : SendTimerFires(a, FALSE)
    \/ \E i \in 1..MaxPosts : AjaxCompletes(i, "success")
    \/ \E a \in AuctionIds : CleanupTimerFires(a)

SpecTwo == InitTwo /\ [][NextTwo]_vars

-----------------------------------------------------------------------------
(* SpecCounter: the bid adapter builds requests while the page navigates      *)
(* between three paths (kargoBidAdapter.js).                                  *)

MaxRequests == 5

\* mutant: the counter is incremented after its value is taken
getRequestCount_PostIncrement(url, counter, path) ==
    IF url = path
    THEN [lastPageUrl |-> url, requestCounter |-> counter + 1, returned |-> counter]
    ELSE [lastPageUrl |-> path, requestCounter |-> 0, returned |-> 0]

\* url, counter: the module's lastPageUrl and requestCounter; path:
\* window.location.pathname; returned: the value of the call
getRequestCount(url, counter, path) ==
    IF url = path
    THEN [lastPageUrl |-> url, requestCounter |-> counter + 1, returned |-> counter + 1]
    ELSE [lastPageUrl |-> path, requestCounter |-> 0, returned |-> 0]

\* buildRequests, as far as the request's requestCount goes
buildRequests ==
    /\ Len(requests) < budget
    /\ LET count == getRequestCount(lastPageUrl, requestCounter, pathname)
       IN  /\ lastPageUrl' = count.lastPageUrl
           /\ requestCounter' = count.requestCounter
           /\ requests' = Append(requests, [pathname |-> pathname,
                                            requestCount |-> count.returned])
    /\ UNCHANGED <<cache, config, sampled, sendTimers, cleanupTimers, inflight, enabled,
                   nextGen, posts, payloads, lastEvent, nEvents, options, inits,
                   participants, budget, now, pathname>>

\* the browser moves to another path
Navigate(path) ==
    /\ path # pathname
    /\ pathname' = path
    /\ UNCHANGED <<cache, config, sampled, sendTimers, cleanupTimers, inflight, enabled,
                   nextGen, posts, payloads, lastEvent, nEvents, options, inits,
                   participants, budget, now, lastPageUrl, requestCounter, requests>>

NextCounter ==
    \/ buildRequests
    \/ \E path \in {"/", "/news", "/sport"} : Navigate(path)

SpecCounter == Start(MaxRequests) /\ [][NextCounter]_vars

-----------------------------------------------------------------------------
(* Vocabulary of the claims *)

\* the ajax calls of one kind made for one auction id
PostsOf(kind, auctionId) ==
    {i \in 1..Len(posts) : posts[i].kind = kind /\ posts[i].auctionId = auctionId}

\* the ajax calls made by the step
NewPosts == SubSeq(posts', Len(posts) + 1, Len(posts'))

\* the step is the dispatch of one event to track()
EventStep == nEvents' = nEvents + 1 /\ lastEvent'.kind # "disable"

\* the step is the dispatch of an event of one of these kinds
StepOf(kinds) == EventStep /\ lastEvent'.kind \in kinds

\* the record of auction a is the same object before and after the step
SameRecord(a) ==
    a \in DOMAIN cache /\ a \in DOMAIN cache' /\ cache'[a].gen = cache[a].gen

Declared(auctionCache, code) == HasKey(auctionCache.adUnits, code)

-----------------------------------------------------------------------------
(* C1 *)

\* C1 (as claimed): for every auction id, at most one auction-payload POST
\* (ajax call to /analytics/auction) is ever made, however often auction-end
\* fires for that id.
C1_AtMostOneAuctionPost ==
    \A a \in AuctionIds : Cardinality(PostsOf("auction", a)) <= 1

-----------------------------------------------------------------------------
(* C2 *)

\* C2 (as claimed): once bid-won has been processed for a slot, the winner
\* recorded for that slot stays the bid-won's bidder and CPM when an auction-end
\* is processed afterwards, whatever the host's highest-bid query returns.
C2_BidWonTakesPrecedence ==
    [][\A a \in AuctionIds, s \in Slots :
          (/\ StepOf({"auctionEnd"})
           /\ SameRecord(a)
           /\ s \in DOMAIN cache[a].winningBids
           /\ cache[a].winningBids[s].won)
          => /\ cache'[a].winningBids[s].bidder = cache[a].winningBids[s].bidder
             /\ cache'[a].winningBids[s].cpm = cache[a].winningBids[s].cpm]_vars

-----------------------------------------------------------------------------
(* C3 *)

Terminal == {"received", "no-bid", "timeout", "error"}

\* C3 (as claimed): a BidRecord whose status is terminal (received, no-bid,
\* timeout, error) keeps that status through any later no-bid or bid-timeout
\* event.
C3_TerminalStatusIsKept ==
    [][StepOf({"noBid", "bidTimeout"}) =>
          \A a \in AuctionIds :
              SameRecord(a) =>
                  \A i \in 1..Len(cache[a].adUnits) :
                      \A j \in 1..Len(cache[a].adUnits[i].bids) :
                          cache[a].adUnits[i].bids[j].status \in Terminal
                          => cache'[a].adUnits[i].bids[j].status
                                = cache[a].adUnits[i].bids[j].status]_vars

-----------------------------------------------------------------------------
(* C4 *)

\* C4 (as claimed): while analytics is enabled with sampling = 0, no step makes
\* a POST (auction or win).
C4_SamplingZeroSendsNothing ==
    [][(enabled /\ options.given /\ options.sampling = 0) => posts' = posts]_vars

-----------------------------------------------------------------------------
(* C5 *)

\* the step is a bid-won for a declared slot of an existing record, in a sampled
\* session with win events enabled
WonOnDeclaredSlot ==
    /\ StepOf({"bidWon"})
    /\ lastEvent'.auctionId \in DOMAIN cache
    /\ Declared(cache[lastEvent'.auctionId], lastEvent'.adUnitCode)
    /\ sampled
    /\ config.sendWinEvents

\* the step makes exactly one POST: the win payload of the event's slot, whose
\* winner is the event's bidder and CPM
OneWinPost ==
    /\ Len(NewPosts) = 1
    /\ NewPosts[1].kind = "win"
    /\ NewPosts[1].auctionId = lastEvent'.auctionId
    /\ NewPosts[1].adUnitCode = lastEvent'.adUnitCode
    /\ LET payload == payloads'[NewPosts[1].gen].win
       IN  /\ payload.kind = "win"
           /\ payload.adUnitCode = lastEvent'.adUnitCode
           /\ payload.winner.bidder = lastEvent'.args.bidderCode
           /\ payload.winner.cpm = lastEvent'.args.cpm

\* C5 (as claimed): every such bid-won yields its win payload exactly once, also
\* after the auction payload was delivered and the record marked sent.
C5_WinPayloadInEveryOrdering == [][WonOnDeclaredSlot => OneWinPost]_vars

\* C5 (amended): such a bid-won yields its win payload exactly once while the
\* record is not marked sent (before the debounce timer fires, or after it fired
\* while the delivery's callback is pending); once the record is marked sent it
\* yields no POST.
C5_WinPayloadUntilSent ==
    [][WonOnDeclaredSlot =>
          IF cache[lastEvent'.auctionId].sent THEN NewPosts = <<>> ELSE OneWinPost]_vars

\* a bid-won arrived after the debounce timer fired: its win POST follows the
\* auction POST of the same record
C5_Witness ==
    /\ lastEvent.kind = "bidWon"
    /\ Len(posts) = 2
    /\ posts[1].kind = "auction"
    /\ posts[2].kind = "win"
    /\ posts[2].auctionId = posts[1].auctionId
    /\ posts[2].gen = posts[1].gen

-----------------------------------------------------------------------------
(* C6 *)

\* C6: a record marked sent stays marked sent, and no step makes a POST (auction
\* or win) for a record that is marked sent.
C6_SentIsFinal ==
    [][\A a \in AuctionIds :
          (a \in DOMAIN cache /\ cache[a].sent)
          => /\ SameRecord(a) => cache'[a].sent
             /\ \A i \in 1..Len(NewPosts) :
                    ~(NewPosts[i].auctionId = a /\ NewPosts[i].gen = cache[a].gen)]_vars

\* a bid-won was processed for a record marked sent: the winner is recorded and,
\* in a sampled session with win events enabled, no win POST was made
C6_Witness ==
    \E a \in DOMAIN cache :
        /\ cache[a].sent
        /\ lastEvent.kind = "bidWon"
        /\ lastEvent.auctionId = a
        /\ lastEvent.adUnitCode \in DOMAIN cache[a].winningBids
        /\ sampled
        /\ config.sendWinEvents
        /\ PostsOf("auction", a) # {}
        /\ PostsOf("win", a) = {}

-----------------------------------------------------------------------------
(* C7 *)

\* the records whose auction payload has been sent
Delivered == {g \in Gens : payloads[g].auction.kind = "auction"}

\* a consent block holds markers only, never a string of the input
MarkersOnly(consent, withUsp) ==
    /\ consent.gdpr.consentString \in {Null, Present}
    /\ consent.gpp.gppString \in {Null, Present}
    /\ withUsp => consent.usp \in {Null, Present}

\* a bidder request with the value of every non-empty consent string blanked
Blank(string) == IF string = "" THEN "" ELSE "*"
Blanked(br, withUsp) ==
    [br EXCEPT !.gdprConsent.consentString = Blank(@),
               !.gppConsent.gppString = Blank(@),
               !.uspConsent = IF withUsp THEN Blank(@) ELSE @]

\* two auction-init inputs differ at most in their auction id and in the values
\* of non-empty consent strings
SameButConsentStrings(x, y, withUsp) ==
    /\ x.timeout = y.timeout
    /\ x.adUnits = y.adUnits
    /\ Len(x.bidderRequests) = Len(y.bidderRequests)
    /\ \A i \in 1..Len(x.bidderRequests) :
            Blanked(x.bidderRequests[i], withUsp) = Blanked(y.bidderRequests[i], withUsp)

ConsentIsScrubbed(withUsp) ==
    /\ \A a \in DOMAIN cache : MarkersOnly(cache[a].consent, withUsp)
    /\ \A g \in Delivered : MarkersOnly(payloads[g].auction.consent, withUsp)
    /\ \A g, h \in Delivered :
            SameButConsentStrings(inits[g], inits[h], withUsp)
            => payloads[g].auction.consent = payloads[h].auction.consent

\* C7 (as claimed): no GDPR, USP or GPP string given at auction-init is kept in
\* the record or in a delivered payload, only a presence marker; auctions that
\* differ only in the values of non-empty consent strings get the same consent
\* block.
C7_NoRawConsentString == ConsentIsScrubbed(TRUE)

\* C7 (amended): no GDPR consent string and no GPP string given at auction-init
\* is kept in the record or in a delivered payload, only a presence marker;
\* auctions that differ only in the values of non-empty GDPR and GPP strings get
\* the same consent block. The USP string is kept and sent as given.
C7_NoRawGdprOrGppString ==
    /\ ConsentIsScrubbed(FALSE)
    /\ \A g \in Delivered :
            LET given == inits[g].bidderRequests[1].uspConsent
            IN  payloads[g].auction.consent.usp = IF given = "" THEN Null ELSE given

\* two delivered auctions whose inputs differ in the value of the GDPR consent
\* string only
C7_Witness ==
    \E g, h \in Delivered :
        /\ inits[g].bidderRequests[1].gdprConsent.consentString = "CONSENT-A"
        /\ inits[h].bidderRequests[1].gdprConsent.consentString = "CONSENT-B"
        /\ SameButConsentStrings(inits[g], inits[h], FALSE)
        /\ inits[g].bidderRequests[1].gppConsent.gppString = "GPP-A"
        /\ inits[g].bidderRequests[1].uspConsent = "1YNN"

-----------------------------------------------------------------------------
(* C8 *)

\* C8 (as claimed): in every auction payload delivered, each slot's bidders list
\* is as long as the number of distinct bidders requested or responded for it.
C8_OneRowPerBidder ==
    [][\A i \in 1..Len(NewPosts) :
          NewPosts[i].kind = "auction" =>
              LET payload == payloads'[NewPosts[i].gen].auction
              IN  \A u \in 1..Len(payload.adUnits) :
                      Len(payload.adUnits[u].bidders)
                        = Cardinality({p \in participants'[NewPosts[i].gen] :
                                            p[1] = payload.adUnits[u].code})]_vars

-----------------------------------------------------------------------------
(* C9 *)

Mutating == {"bidRequested", "bidResponse", "noBid", "bidTimeout", "bidderDone",
             "bidderError", "auctionEnd", "bidWon"}

\* the auction ids an event names
NamedAuctions(event) ==
    IF event.kind = "bidTimeout"
    THEN {event.args.entries[i].auctionId : i \in 1..Len(event.args.entries)}
    ELSE {event.auctionId}

-----------------------------------------------------------------------------
(* C10 *)

SlotEvents == {"bidRequested", "bidResponse", "noBid", "bidTimeout", "bidWon"}

\* C10 (as claimed): an event naming a slot that was not declared at auction-init
\* leaves the record unchanged and sends nothing.
C10_UndeclaredSlotDropped ==
    [][(/\ StepOf(SlotEvents)
        /\ lastEvent'.auctionId \in DOMAIN cache
        /\ ~Declared(cache[lastEvent'.auctionId], lastEvent'.adUnitCode))
          => cache' = cache /\ posts' = posts]_vars

-----------------------------------------------------------------------------
(* C11 *)

\* C11 (as claimed): once an auction-end has stamped endTimestamp and duration on
\* a record, no later step changes them, a repeated auction-end included.
C11_EndStampedOnce ==
    [][\A a \in AuctionIds :
          (SameRecord(a) /\ cache[a].endTimestamp # NoNum)
          => /\ cache'[a].endTimestamp = cache[a].endTimestamp
             /\ cache'[a].duration = cache[a].duration]_vars

-----------------------------------------------------------------------------
(* C12 *)

\* what the host can answer while an event is handled
HostsOf ==
    {[conv |-> "absent", highest |-> h, ajaxThrows |-> t] :
        h \in Highests, t \in BOOLEAN}

\* the cache the event of this step leaves in a sampled session
SampledCaches ==
    IF lastEvent'.kind = "auctionInit"
    THEN {IF lastEvent'.auctionId = NoId THEN cache
          ELSE handleAuctionInit([World EXCEPT !.sampled = TRUE], inits'[nextGen]).cache}
    ELSE {track([World EXCEPT !.sampled = TRUE], lastEvent'.kind, lastEvent'.args,
                host).cache : host \in HostsOf}

\* C12: while analytics stays enabled no step changes the sampling decision; in
\* an unsampled session no step makes a POST (auction or win), and every event
\* leaves the cache it would leave in a sampled session.
C12_UnsampledSendsNothing ==
    [][/\ (enabled /\ enabled') => sampled' = sampled
       /\ ~sampled => posts' = posts
       /\ (~sampled /\ EventStep) => cache' \in SampledCaches]_vars

\* an unsampled session with win events enabled: a bid was received, the
\* debounce timer fired and a bid-won was recorded, and nothing was sent
C12_Witness ==
    /\ ~sampled
    /\ config.sendWinEvents
    /\ lastEvent.kind = "bidWon"
    /\ "a1" \in DOMAIN cache
    /\ cache["a1"].bidsReceived # <<>>
    /\ cache["a1"].sent
    /\ "s1" \in DOMAIN cache["a1"].winningBids
    /\ posts = <<>>

-----------------------------------------------------------------------------
(* C13 *)

\* the step is the firing of a debounce timer of auction a
SendTimerStep(a) == sendTimers'[a] = sendTimers[a] - 1

\* C13: in an unsampled session, the firing of the debounce timer of an unsent
\* record marks the record sent and arms its eviction timer, and sends nothing.
C13_UnsampledStillMarkedSent ==
    [][\A a \in AuctionIds :
          (SendTimerStep(a) /\ ~sampled /\ a \in DOMAIN cache /\ ~cache[a].sent)
          => /\ SameRecord(a)
             /\ cache'[a].sent
             /\ cleanupTimers'[a] = cleanupTimers[a] + 1
             /\ posts' = posts
             /\ inflight' = inflight]_vars

\* an unsampled session in which the debounce timer of an ended auction fired:
\* the record is sent and waits for its eviction, nothing was posted
C13_Witness ==
    /\ ~sampled
    /\ "a1" \in DOMAIN cache
    /\ cache["a1"].endTimestamp # NoNum
    /\ cache["a1"].sent
    /\ sendTimers["a1"] = 0
    /\ cleanupTimers["a1"] = 1
    /\ posts = <<>>

-----------------------------------------------------------------------------
(* C14 *)

\* the step is the callback of the i-th call in flight
CallbackStep(i) ==
    /\ i \in 1..Len(inflight)
    /\ inflight' = SubSeq(inflight, 1, i - 1) \o SubSeq(inflight, i + 1, Len(inflight))

\* the record an ajax call was made for is still in the cache
Holds(call) ==
    call.auctionId \in DOMAIN cache /\ cache[call.auctionId].gen = call.gen

\* C14: when the auction POST fails (its error callback runs, or the send call
\* throws) the record is marked sent and its eviction timer is armed, and no
\* auction POST is made for a record that is marked sent.
C14_FailureCountsAsSent ==
    [][/\ \A i \in 1..Len(inflight) :
              CallbackStep(i) =>
                  /\ Holds(inflight[i]) => /\ SameRecord(inflight[i].auctionId)
                                           /\ cache'[inflight[i].auctionId].sent
                  /\ cleanupTimers'[inflight[i].auctionId]
                        = cleanupTimers[inflight[i].auctionId] + 1
                  /\ posts' = posts
       /\ \A a \in AuctionIds :
              (SendTimerStep(a) /\ NewPosts # <<>> /\ NewPosts[1].threw)
              => /\ cache'[a].sent
                 /\ cleanupTimers'[a] = cleanupTimers[a] + 1
                 /\ inflight' = inflight
       /\ \A a \in AuctionIds :
              (a \in DOMAIN cache /\ cache[a].sent)
              => \A i \in 1..Len(NewPosts) :
                     ~(/\ NewPosts[i].kind = "auction"
                       /\ NewPosts[i].auctionId = a
                       /\ NewPosts[i].gen = cache[a].gen)]_vars

\* auction-end came twice; the first timer's POST failed in its error callback
\* and the record is sent, while the second timer is still to fire
C14_Witness ==
    /\ "a1" \in DOMAIN cache
    /\ cache["a1"].sent
    /\ Len(posts) = 1
    /\ posts[1].kind = "auction"
    /\ ~posts[1].threw
    /\ posts[1].gen = cache["a1"].gen
    /\ inflight = <<>>
    /\ sendTimers["a1"] = 1
    /\ cleanupTimers["a1"] = 1

-----------------------------------------------------------------------------
(* C15 *)

\* where the record of auction a stands in idle -> armed -> delivering -> sent
PhaseOf(record, timers, calls, a) ==
    IF record.sent THEN "sent"
    ELSE IF \E i \in 1..Len(calls) : calls[i].auctionId = a /\ calls[i].gen = record.gen
         THEN "delivering"
    ELSE IF timers[a] > 0 THEN "armed"
    ELSE "idle"

Phase(a) == PhaseOf(cache[a], sendTimers, inflight, a)

PhaseAfter(a) ==
    IF SameRecord(a) THEN PhaseOf(cache'[a], sendTimers', inflight', a) ELSE "evicted"

PhaseSteps ==
    {<<"idle", "armed">>, <<"armed", "delivering">>, <<"delivering", "sent">>,
     <<"sent", "evicted">>}

\* the step posts the auction payload of the record of auction a
AuctionPostStep(a) ==
    \E i \in 1..Len(NewPosts) :
        /\ NewPosts[i].kind = "auction"
        /\ NewPosts[i].auctionId = a
        /\ NewPosts[i].gen = cache[a].gen

\* a send call that throws is a delivery that failed within the step
ThrownDelivery(a) ==
    /\ AuctionPostStep(a)
    /\ NewPosts[1].threw
    /\ <<Phase(a), PhaseAfter(a)>> = <<"armed", "sent">>

\* C15 (as claimed): in a sampled session that stays enabled, a record that has
\* received auction-end and is not replaced by a new auction-init moves through
\* armed -> delivering -> sent -> evicted one state at a time, skipping and
\* revisiting none: its auction payload is posted in its step from armed to
\* delivering and in no other step, and it leaves the cache only when sent.
C15_LifecycleInOrder ==
    [][\A a \in DOMAIN cache :
          (/\ cache[a].endTimestamp # NoNum
           /\ sampled /\ enabled'
           /\ SameRecord(a) \/ a \notin DOMAIN cache')
          => /\ \/ PhaseAfter(a) = Phase(a)
                \/ <<Phase(a), PhaseAfter(a)>> \in PhaseSteps
                \/ ThrownDelivery(a)
             /\ AuctionPostStep(a)
                => \/ <<Phase(a), PhaseAfter(a)>> = <<"armed", "delivering">>
                   \/ ThrownDelivery(a)]_vars

-----------------------------------------------------------------------------
(* C16 *)

\* the BidRecords of the adapter's own bidder on a slot of a record
OwnBids(auctionCache, code) ==
    IF Declared(auctionCache, code)
    THEN SelectSeq(AdUnitOf(auctionCache, code).bids,
                   LAMBDA b : b.bidder = KARGO_BIDDER_CODE)
    ELSE <<>>

-----------------------------------------------------------------------------
(* C17 *)

\* C17: in a sampled session with win events enabled, every bid-won for an
\* unsent record posts one win payload for its slot within the step of the
\* event, whatever timers are armed and whether or not auction-end has come;
\* the step arms and fires no timer.
C17_WinSentAtOnce ==
    [][(/\ StepOf({"bidWon"})
        /\ lastEvent'.auctionId \in DOMAIN cache
        /\ ~cache[lastEvent'.auctionId].sent
        /\ sampled
        /\ config.sendWinEvents)
          => /\ Len(posts') = Len(posts) + 1
             /\ posts'[Len(posts')].kind = "win"
             /\ posts'[Len(posts')].auctionId = lastEvent'.auctionId
             /\ posts'[Len(posts')].adUnitCode = lastEvent'.adUnitCode
             /\ UNCHANGED <<sendTimers, cleanupTimers, inflight>>]_vars

\* two bid-won events for the same slot, before any auction-end: two win POSTs
C17_Witness ==
    /\ lastEvent.kind = "bidWon"
    /\ Len(posts) = 2
    /\ posts[1].kind = "win"
    /\ posts[2].kind = "win"
    /\ posts[1].auctionId = posts[2].auctionId
    /\ posts[1].gen = posts[2].gen
    /\ posts[1].adUnitCode = posts[2].adUnitCode
    /\ posts[1].auctionId \in DOMAIN cache
    /\ cache[posts[1].auctionId].endTimestamp = NoNum

-----------------------------------------------------------------------------
(* C18 *)

\* the session was enabled with sendWinEvents: false
WinEventsOff == options.given /\ options.sendWinEvents = "false"

\* the bid-won of this step is recorded: the slot's winner is the event's bid,
\* and the slot's bids with the event's bid id or bidder are flagged won
WinRecorded ==
    LET event == lastEvent'.args
        record == cache'[event.auctionId]
    IN  /\ HasWinner(record, event.adUnitCode)
        /\ WinnerOf(record, event.adUnitCode).bidder = event.bidderCode
        /\ WinnerOf(record, event.adUnitCode).cpm = event.cpm
        /\ WinnerOf(record, event.adUnitCode).bidId = event.requestId
        /\ WinnerOf(record, event.adUnitCode).won
        /\ Declared(record, event.adUnitCode)
              => \A j \in 1..Len(AdUnitOf(record, event.adUnitCode).bids) :
                    LET bid == AdUnitOf(record, event.adUnitCode).bids[j]
                    IN  (bid.bidId = event.requestId \/ bid.bidder = event.bidderCode)
                        => bid.won

\* C18: a bid-won posts a win payload exactly if the record exists, win events
\* are enabled, the session is sampled and the record is not marked sent; with
\* sendWinEvents = false no step posts a win payload; whenever the record exists
\* the winner entry and the won flags are updated.
C18_WinPostGate ==
    [][/\ StepOf({"bidWon"}) =>
              LET a == lastEvent'.auctionId
              IN  /\ (NewPosts # <<>>)
                        <=> (/\ a \in DOMAIN cache
                             /\ config.sendWinEvents
                             /\ sampled
                             /\ ~cache[a].sent)
                  /\ \A i \in 1..Len(NewPosts) : NewPosts[i].kind = "win"
                  /\ a \in DOMAIN cache => SameRecord(a) /\ WinRecorded
       /\ (enabled /\ WinEventsOff)
              => \A i \in 1..Len(NewPosts) : NewPosts[i].kind # "win"]_vars

\* a sampled session with sendWinEvents = false: 'kargo' bid and won, the
\* winner and the bid's won flag are recorded, and no win payload was posted
C18_Witness ==
    /\ sampled
    /\ WinEventsOff
    /\ lastEvent.kind = "bidWon"
    /\ "a1" \in DOMAIN cache
    /\ HasWinner(cache["a1"], "s1")
    /\ WinnerOf(cache["a1"], "s1").won
    /\ OwnBids(cache["a1"], "s1") # <<>>
    /\ OwnBids(cache["a1"], "s1")[1].won
    /\ PostsOf("win", "a1") = {}

-----------------------------------------------------------------------------
(* C19 *)

\* the event's CPM is missing or not positive
NoCpm(event) == event.args.cpm = NoNum \/ event.args.cpm <= 0

\* the event's CPM is in another currency than USD and cannot be converted
Unconvertible(event) ==
    /\ event.args.currency \notin {Null, CURRENCY_USD}
    /\ event.conv \in {"absent", "throws"}

\* the cpmUsd the step's event left: in the BidRecord of a bid-response, in the
\* WinnerRecord of a bid-won
CpmUsdLeft ==
    LET event == lastEvent'.args
        record == cache'[event.auctionId]
    IN  IF lastEvent'.kind = "bidWon"
        THEN WinnerOf(record, event.adUnitCode).cpmUsd
        ELSE LET bids == AdUnitOf(record, event.adUnitCode).bids
                 bidId == IF event.originalRequestId # Null
                          THEN event.originalRequestId ELSE event.requestId
             IN  bids[IndexOfKey(bids, bidId)].cpmUsd

\* the step is a bid-response or a bid-won that writes a cpmUsd
PricedStep ==
    /\ StepOf({"bidResponse", "bidWon"})
    /\ lastEvent'.auctionId \in DOMAIN cache
    /\ lastEvent'.kind = "bidResponse"
          => Declared(cache[lastEvent'.auctionId], lastEvent'.adUnitCode)

\* C19 (as claimed): the cpmUsd of a BidRecord or WinnerRecord is null whenever
\* the CPM is missing or <= 0, and whenever the CPM is in another currency and
\* the conversion function is absent or fails.
C19_NullWhenUnconvertible ==
    [][PricedStep =>
          ((NoCpm(lastEvent') \/ Unconvertible(lastEvent')) => CpmUsdLeft = NoNum)]_vars

\* C19 (amended): the cpmUsd of a BidRecord or WinnerRecord is null exactly when
\* the CPM is missing or <= 0; when a positive CPM is in another currency and
\* the conversion function is absent or fails, cpmUsd is the original CPM
\* rounded to three decimals.
C19_OriginalWhenUnconvertible ==
    [][PricedStep =>
          /\ CpmUsdLeft = NoNum <=> NoCpm(lastEvent')
          /\ (Unconvertible(lastEvent') /\ ~NoCpm(lastEvent'))
                => CpmUsdLeft = ToFixed3(lastEvent'.args.cpm)]_vars

\* a bid of 1.2345 EUR was received while the conversion threw: its BidRecord
\* has the cpmUsd 1.235 (1.2345 rounded)
C19_Witness ==
    /\ lastEvent.kind = "bidResponse"
    /\ lastEvent.hadRecord
    /\ lastEvent.conv = "throws"
    /\ lastEvent.args.currency = "EUR"
    /\ lastEvent.args.cpm = 12345
    /\ "a1" \in DOMAIN cache
    /\ OwnBids(cache["a1"], "s1") # <<>>
    /\ OwnBids(cache["a1"], "s1")[1].cpmUsd = 1235

-----------------------------------------------------------------------------
(* C20 *)

-----------------------------------------------------------------------------
(* C21 *)

\* the adapter's state after the step
WorldAfter ==
    [cache |-> cache', config |-> config', sampled |-> sampled',
     sendTimers |-> sendTimers', cleanupTimers |-> cleanupTimers',
     inflight |-> inflight', posts |-> posts', payloads |-> payloads',
     enabled |-> enabled', nextGen |-> nextGen', now |-> now']

\* the status of every BidRecord of every record of a cache
Statuses(c) ==
    [a \in DOMAIN c |->
        [i \in 1..Len(c[a].adUnits) |->
            [j \in 1..Len(c[a].adUnits[i].bids) |-> c[a].adUnits[i].bids[j].status]]]

\* the cache after the event of the step is dispatched once more
Replayed ==
    track(WorldAfter, lastEvent'.kind, lastEvent'.args, [conv |-> "absent"]).cache

\* how many entries the event of the step appends for auction a
Appended(a) ==
    IF lastEvent'.kind = "noBid"
    THEN IF lastEvent'.args.auctionId = a THEN 1 ELSE 0
    ELSE Cardinality({i \in 1..Len(lastEvent'.args.entries) :
                        lastEvent'.args.entries[i].auctionId = a})

\* the totalNoBids and totalTimeouts an auction payload of the record reports
Totals(a, auctionCache) ==
    LET counts == auctionCounts(auctionCache)
    IN  <<counts.totalNoBids, counts.totalTimeouts>>

Grown(kind, totals, n) ==
    IF kind = "noBid" THEN <<totals[1] + n, totals[2]>> ELSE <<totals[1], totals[2] + n>>

\* C21: dispatching a no-bid or bid-timeout event a second time leaves every
\* BidRecord status as the first dispatch left it, while each dispatch appends
\* one entry per named bid to the record's no-bids (timeouts) sequence, so that
\* totalNoBids (totalTimeouts) counts the replay.
C21_StatusIdempotentCountsAppend ==
    [][StepOf({"noBid", "bidTimeout"}) =>
          LET replayed == Replayed
          IN  /\ DOMAIN replayed = DOMAIN cache'
              /\ Statuses(replayed) = Statuses(cache')
              /\ \A a \in DOMAIN cache :
                    LET once == Totals(a, cache'[a])
                    IN  /\ SameRecord(a)
                        /\ once = Grown(lastEvent'.kind, Totals(a, cache[a]), Appended(a))
                        /\ Totals(a, replayed[a])
                              = Grown(lastEvent'.kind, once, Appended(a))]_vars

\* the same no-bid was dispatched twice for a requested bid: the bid's status
\* is no-bid and the no-bids sequence holds the entry twice
C21_Witness ==
    /\ lastEvent.kind = "noBid"
    /\ "a1" \in DOMAIN cache
    /\ Len(cache["a1"].noBids) = 2
    /\ cache["a1"].noBids[1] = cache["a1"].noBids[2]
    /\ Declared(cache["a1"], "s1")
    /\ \E j \in 1..Len(AdUnitOf(cache["a1"], "s1").bids) :
            /\ AdUnitOf(cache["a1"], "s1").bids[j].key = lastEvent.args.bidId
            /\ AdUnitOf(cache["a1"], "s1").bids[j].status = "no-bid"

-----------------------------------------------------------------------------
(* C22 *)

\* the record of auction a was initialised with empty ad unit and bidder lists
\* and has seen no no-bid, timeout or error since
EmptyAuction(a) ==
    /\ a \in DOMAIN cache
    /\ inits[cache[a].gen].adUnits = <<>>
    /\ inits[cache[a].gen].bidderRequests = <<>>
    /\ cache[a].noBids = <<>>
    /\ cache[a].timeouts = <<>>
    /\ cache[a].errors = <<>>

\* all aggregate counts of an auction payload are zero
ZeroCounts(payload) ==
    /\ payload.auction.bidderCount = 0
    /\ payload.auction.totalBidsRequested = 0
    /\ payload.auction.totalBidsReceived = 0
    /\ payload.auction.totalNoBids = 0
    /\ payload.auction.totalTimeouts = 0
    /\ payload.auction.totalErrors = 0
    /\ payload.kargo.bidCount = 0

\* the auction POSTs made for the record object of auction a
PostsOfRecord(log, a) ==
    {i \in 1..Len(log) : /\ log[i].kind = "auction"
                         /\ log[i].auctionId = a
                         /\ log[i].gen = cache[a].gen}

\* C22: in a sampled session, when the debounce timer of an auction that was
\* initialised with empty ad unit and bidder lists and then ended fires (the
\* only timer armed for it, nothing posted for it yet), exactly one auction
\* payload is posted for it, carrying its auction id and with bidderCount,
\* totalBidsRequested, totalBidsReceived, totalNoBids, totalTimeouts,
\* totalErrors and kargo.bidCount all zero, and no timer is left to post again.
C22_EmptyAuctionDelivered ==
    [][\A a \in AuctionIds :
          (/\ SendTimerStep(a)
           /\ EmptyAuction(a)
           /\ ~cache[a].sent
           /\ sampled
           /\ sendTimers[a] = 1
           /\ PostsOfRecord(posts, a) = {})
          => /\ Len(NewPosts) = 1
             /\ Cardinality(PostsOfRecord(posts', a)) = 1
             /\ NewPosts[1].kind = "auction"
             /\ NewPosts[1].auctionId = a
             /\ payloads'[cache[a].gen].auction.kind = "auction"
             /\ payloads'[cache[a].gen].auction.auctionId = a
             /\ ZeroCounts(payloads'[cache[a].gen].auction)
             /\ sendTimers'[a] = 0]_vars

\* the empty auction a1 was ended and its timer fired: one POST, an auction
\* payload naming a1 with all counts zero, and the record is being delivered
C22_Witness ==
    /\ EmptyAuction("a1")
    /\ cache["a1"].endTimestamp # NoNum
    /\ cache["a1"].adUnits = <<>>
    /\ Len(posts) = 1
    /\ posts[1].kind = "auction"
    /\ posts[1].gen = cache["a1"].gen
    /\ LastPayload.auctionId = "a1"
    /\ ZeroCounts(LastPayload)
    /\ sendTimers["a1"] = 0

-----------------------------------------------------------------------------
(* C23 *)

\* the error entry a bidder-error event stands for
ErrorEntry(event) ==
    [bidder |-> event.bidderCode,
     message |-> IF event.errorMessage # Null THEN event.errorMessage
                 ELSE "Unknown error",
     status |-> event.errorStatus]

\* C23: every bidder-error event whose auction id, or else whose bidder
\* request's auction id, names a record appends exactly one entry to the
\* record's errors, carrying the event's bidder code, message ('Unknown error'
\* if it has none) and status, whether or not the bidder is one of the record's
\* bidders; and every auction payload posted carries the record's errors, each
\* entry once, in order.
C23_ErrorLoggedOnce ==
    [][/\ (StepOf({"bidderError"}) /\ lastEvent'.auctionId \in DOMAIN cache)
            => /\ SameRecord(lastEvent'.auctionId)
               /\ cache'[lastEvent'.auctionId].errors
                    = Append(cache[lastEvent'.auctionId].errors,
                             ErrorEntry(lastEvent'.args))
       /\ \A i \in 1..Len(NewPosts) :
              NewPosts[i].kind = "auction"
              => /\ payloads'[NewPosts[i].gen].auction.errors
                        = cache[NewPosts[i].auctionId].errors
                 /\ payloads'[NewPosts[i].gen].auction.auction.totalErrors
                        = Len(cache[NewPosts[i].auctionId].errors)]_vars

\* an auction payload was posted whose errors array holds exactly one entry,
\* the error of a bidder that is not among the auction's bidders
C23_Witness ==
    /\ posts # <<>>
    /\ posts[Len(posts)].kind = "auction"
    /\ LastPayload.errors
         = <<[bidder |-> "badBidder", message |-> "Network error", status |-> 500]>>
    /\ \A i \in 1..Len(inits[posts[Len(posts)].gen].bidderRequests) :
            inits[posts[Len(posts)].gen].bidderRequests[i].bidderCode # "badBidder"
    /\ inits[posts[Len(posts)].gen].bidderRequests # <<>>
    /\ lastEvent.kind = "auctionEnd"

-----------------------------------------------------------------------------
(* C24 *)

\* C24: an auction-init event without an auction id creates no record: the
\* cache, with every record in it, is unchanged, and so is all other state of
\* the adapter.
C24_InitWithoutIdSkipped ==
    [][(StepOf({"auctionInit"}) /\ lastEvent'.auctionId = NoId)
          => /\ cache' = cache
             /\ DOMAIN cache' \subseteq AuctionIds
             /\ UNCHANGED <<config, sampled, sendTimers, cleanupTimers, inflight,
                            enabled, nextGen, posts, payloads>>]_vars

\* an auction-init without auction id arrived while the cache held the record
\* of a1 with a requested bid
C24_Witness ==
    /\ lastEvent.kind = "auctionInit"
    /\ lastEvent.auctionId = NoId
    /\ DOMAIN cache = {"a1"}
    /\ AdUnitOf(cache["a1"], "s1").bids # <<>>

-----------------------------------------------------------------------------
(* C25 *)

\* everything of the adapter but its cache
Rest == <<config, sampled, sendTimers, cleanupTimers, inflight, enabled, nextGen,
          posts, payloads>>

-----------------------------------------------------------------------------
(* C26 *)

\* the step is a call of disableAnalytics
DisableStep == nEvents' = nEvents + 1 /\ lastEvent'.kind = "disable"

\* the step is the firing of an eviction timer of auction a
CleanupTimerStep(a) == cleanupTimers'[a] = cleanupTimers[a] - 1

\* C26: disableAnalytics empties the cache and puts the configuration back to
\* its defaults, leaving the armed timers armed; a debounce timer or an
\* eviction timer that fires when its auction has no record (as after the
\* teardown) posts nothing and changes nothing but the timer itself.
C26_TeardownOrphansTimers ==
    [][/\ DisableStep
            => /\ cache' = <<>>
               /\ config' = DEFAULT_CONFIG
               /\ UNCHANGED <<sendTimers, cleanupTimers, inflight, posts, payloads>>
       /\ \A a \in AuctionIds :
            ((SendTimerStep(a) \/ CleanupTimerStep(a)) /\ a \notin DOMAIN cache)
            => /\ UNCHANGED <<cache, config, sampled, inflight, enabled, nextGen,
                              posts, payloads>>
               /\ SendTimerStep(a) => cleanupTimers' = cleanupTimers
               /\ CleanupTimerStep(a) => sendTimers' = sendTimers]_vars

\* analytics, enabled with sendWinEvents: false, was disabled while the
\* debounce timer of a1 was armed: the cache is empty, the configuration is the
\* default one, and the timer is still to fire
C26_Witness ==
    /\ lastEvent.kind = "disable"
    /\ ~enabled
    /\ options.sendWinEvents = "false"
    /\ config = DEFAULT_CONFIG
    /\ cache = <<>>
    /\ sendTimers["a1"] = 1

-----------------------------------------------------------------------------
(* C27 *)

\* the timeouts entries of the entries of a list that name auction a, in order
TimeoutsFor(a, entries) ==
    LET named == SelectSeq(entries, LAMBDA e : e.auctionId = a)
    IN  [k \in 1..Len(named) |->
            [adUnitCode |-> named[k].adUnitCode, bidder |-> named[k].bidder]]

\* the BidRecord an entry names exists in the cache
NamesBid(c, e) ==
    /\ e.auctionId \in DOMAIN c
    /\ Declared(c[e.auctionId], e.adUnitCode)
    /\ HasKey(AdUnitOf(c[e.auctionId], e.adUnitCode).bids, e.bidId)

\* C27: a bid-timeout event whose payload is a list handles every entry on its
\* own: whatever the other entries name (an auction without record, an
\* undeclared slot, no auction at all), every entry whose BidRecord exists sets
\* its status to timeout, and every entry whose auction has a record is
\* appended to that record's timeouts, in the order of the list; a payload that
\* is not a list changes nothing.
C27_TimeoutEntriesIndependent ==
    [][StepOf({"bidTimeout"}) =>
          LET event == lastEvent'.args
          IN  IF ~event.isArray THEN UNCHANGED <<cache, Rest>>
              ELSE /\ DOMAIN cache' = DOMAIN cache
                   /\ \A a \in DOMAIN cache :
                        cache'[a].timeouts
                            = cache[a].timeouts \o TimeoutsFor(a, event.entries)
                   /\ \A k \in 1..Len(event.entries) :
                        LET e == event.entries[k]
                        IN  NamesBid(cache, e)
                            => LET bids == AdUnitOf(cache'[e.auctionId], e.adUnitCode).bids
                               IN  bids[IndexOfKey(bids, e.bidId)].status = "timeout"]_vars

\* a bid-timeout list whose first entry names an auction without record and
\* whose second names the requested bid b1 of a1: the bid has timed out and
\* the entry is in a1's timeouts
C27_Witness ==
    /\ lastEvent.kind = "bidTimeout"
    /\ Len(lastEvent.args.entries) = 2
    /\ lastEvent.args.entries[1].auctionId = "a2"
    /\ "a2" \notin DOMAIN cache
    /\ NamesBid(cache, lastEvent.args.entries[2])
    /\ AdUnitOf(cache["a1"], "s1").bids[1].status = "timeout"
    /\ cache["a1"].timeouts = <<[adUnitCode |-> "s1", bidder |-> "kargo"]>>

-----------------------------------------------------------------------------
(* C28 *)

\* the key a bid-response is stored under
ResponseKey(event) ==
    IF event.originalRequestId # Null THEN event.originalRequestId ELSE event.requestId

\* the fields of a BidRecord that a bid-response does not carry
Kept(bid) == <<bid.requestTimestamp, bid.serverResponseTime, bid.won>>

\* C28: a bid-response for an existing record and a declared slot is stored
\* under its originalRequestId if it has one, else under its requestId. A
\* BidRecord already under that key stays in its place and keeps the fields the
\* response does not carry (request timestamp, server response time, won);
\* otherwise a BidRecord is added. The BidRecord gets the status received and
\* the response's bidder and CPM, the slot's other BidRecords are unchanged,
\* and exactly one entry is appended to bidsReceived.
C28_ResponseMerged ==
    [][(/\ StepOf({"bidResponse"})
        /\ lastEvent'.auctionId \in DOMAIN cache
        /\ Declared(cache[lastEvent'.auctionId], lastEvent'.adUnitCode))
          => LET event == lastEvent'.args
                 key == ResponseKey(event)
                 before == AdUnitOf(cache[event.auctionId], event.adUnitCode).bids
                 after == AdUnitOf(cache'[event.auctionId], event.adUnitCode).bids
                 at == IndexOfKey(after, key)
             IN  /\ SameRecord(event.auctionId)
                 /\ at # 0
                 /\ after[at].status = "received"
                 /\ after[at].bidder = event.bidderCode
                 /\ after[at].bidId = event.requestId
                 /\ after[at].cpm = event.cpm
                 /\ IF HasKey(before, key)
                    THEN /\ at = IndexOfKey(before, key)
                         /\ Len(after) = Len(before)
                         /\ Kept(after[at]) = Kept(before[at])
                    ELSE /\ at = Len(before) + 1
                         /\ Len(after) = Len(before) + 1
                 /\ \A j \in 1..Len(before) : j # at => after[j] = before[j]
                 /\ Len(cache'[event.auctionId].bidsReceived)
                        = Len(cache[event.auctionId].bidsReceived) + 1
                 /\ LET entry == cache'[event.auctionId].bidsReceived[
                                    Len(cache'[event.auctionId].bidsReceived)]
                    IN  /\ entry.adUnitCode = event.adUnitCode
                        /\ entry.bidder = event.bidderCode
                        /\ entry.cpm = event.cpm]_vars

\* a response with requestId b2 and originalRequestId b1 was merged onto the
\* requested bid b1, which a bid-won had flagged won before: the BidRecord
\* under b1 is received, still won, and still has its request timestamp
C28_Witness ==
    /\ lastEvent.kind = "bidResponse"
    /\ lastEvent.args.originalRequestId = "b1"
    /\ lastEvent.args.requestId = "b2"
    /\ "a1" \in DOMAIN cache
    /\ LET bids == AdUnitOf(cache["a1"], "s1").bids
       IN  /\ Len(bids) = 1
           /\ bids[1].key = "b1"
           /\ bids[1].bidId = "b2"
           /\ bids[1].status = "received"
           /\ bids[1].won
           /\ bids[1].requestTimestamp # NoNum
    /\ Len(cache["a1"].bidsReceived) = 1

-----------------------------------------------------------------------------
(* C29 *)

\* the bidder-done event reports the BidRecord under key of ad unit code
ReportedDone(event, code, key) ==
    \E k \in 1..Len(event.bids) :
        event.bids[k].adUnitCode = code /\ event.bids[k].bidId = key

\* C29: in a bidder-done or bidder-error step, a BidRecord's status changes
\* only if it was pending: to no-bid in a bidder-done, and only for a bid the
\* event reports, to error in a bidder-error, and only for a bid of the
\* event's bidder. BidRecords with a terminal status, bids not reported done
\* and bids of other bidders keep their status. A bidder-error marks every
\* pending bid of its bidder, and a bidder-done whose handler does not fail
\* marks every pending bid it reports.
C29_OnlyPendingIsForced ==
    [][(StepOf({"bidderDone", "bidderError"}) /\ lastEvent'.auctionId \in DOMAIN cache)
          => LET a == lastEvent'.auctionId
                 event == lastEvent'.args
                 done == lastEvent'.kind = "bidderDone"
             IN  /\ SameRecord(a)
                 /\ Len(cache'[a].adUnits) = Len(cache[a].adUnits)
                 /\ \A i \in 1..Len(cache[a].adUnits) :
                      /\ Len(cache'[a].adUnits[i].bids) = Len(cache[a].adUnits[i].bids)
                      /\ \A j \in 1..Len(cache[a].adUnits[i].bids) :
                           LET old == cache[a].adUnits[i].bids[j]
                               new == cache'[a].adUnits[i].bids[j]
                               named == IF done
                                        THEN ReportedDone(event, cache[a].adUnits[i].key,
                                                          old.key)
                                        ELSE old.bidder = event.bidderCode
                           IN  /\ new.status # old.status
                                    => /\ old.status = "pending"
                                       /\ named
                                       /\ new.status = IF done THEN "no-bid" ELSE "error"
                               /\ (old.status = "pending" /\ named /\ ~lastEvent'.failed)
                                    => new.status # old.status]_vars

\* a bidder-error of 'kargo' found one of its bids pending and the other
\* received: the first is marked error, the second is still received
C29_Witness ==
    /\ lastEvent.kind = "bidderError"
    /\ lastEvent.args.bidderCode = "kargo"
    /\ "a1" \in DOMAIN cache
    /\ LET bids == AdUnitOf(cache["a1"], "s1").bids
       IN  /\ Len(bids) = 2
           /\ bids[1].bidder = "kargo" /\ bids[1].status = "error"
           /\ bids[2].bidder = "kargo" /\ bids[2].status = "received"
    /\ Len(cache["a1"].errors) = 1

-----------------------------------------------------------------------------
(* C30 *)

\* a host whose getHighestCpmBids() throws or is not a function
FailingHost == [conv |-> "absent", highest |-> [throws |-> TRUE, bids |-> <<>>]]

\* C30: an auction-end for an unsent record during which the host's query for
\* the highest bids fails still stamps endTimestamp with the current time and
\* duration with the time since the auction-init, leaves winningBids as it
\* was, and arms one debounce timer; and when a debounce timer fires for an
\* unsent record in a sampled session, the auction payload of the record is
\* posted, with that duration and those winners.
C30_QueryFailureDoesNotBlock ==
    [][\A a \in AuctionIds :
          /\ (/\ StepOf({"auctionEnd"})
              /\ lastEvent'.auctionId = a
              /\ a \in DOMAIN cache
              /\ ~cache[a].sent
              /\ cache' = handleAuctionEnd(World, lastEvent'.args, FailingHost).cache)
                => /\ SameRecord(a)
                   /\ cache'[a].endTimestamp = now
                   /\ cache'[a].duration = now - cache[a].timestamp
                   /\ cache'[a].winningBids = cache[a].winningBids
                   /\ sendTimers'[a] = sendTimers[a] + 1
          /\ (/\ SendTimerStep(a)
              /\ a \in DOMAIN cache
              /\ ~cache[a].sent
              /\ sampled)
                => /\ Len(NewPosts) = 1
                   /\ NewPosts[1].kind = "auction"
                   /\ NewPosts[1].auctionId = a
                   /\ NewPosts[1].gen = cache[a].gen
                   /\ payloads'[cache[a].gen].auction
                        = formatAuctionPayload(a, cache[a])
                   /\ payloads'[cache[a].gen].auction.auctionDuration
                        = cache[a].duration]_vars

\* 'appnexus' won slot s1 of a1, the auction ended one clock step after its
\* init while the host's query failed, and the timer fired: the auction payload
\* was posted with duration 1 and the winner of the bid-won
C30_Witness ==
    /\ lastEvent.kind = "auctionEnd"
    /\ posts # <<>>
    /\ posts[Len(posts)].kind = "auction"
    /\ LastPayload.auctionDuration = 1
    /\ Len(LastPayload.adUnits) = 1
    /\ LastPayload.adUnits[1].winningBidder = "appnexus"
    /\ sendTimers["a1"] = 0

-----------------------------------------------------------------------------
(* C31 *)

\* how many of the rows are received with a USD CPM above the given one
Higher(rows, cpm) ==
    Cardinality({j \in 1..Len(rows) : rows[j].status = "received" /\ rows[j].cpm > cpm})

\* the bids of a slot of a record as rows of status and USD CPM
PricedRows(auctionCache, code) ==
    LET bids == AdUnitOf(auctionCache, code).bids
    IN  [j \in 1..Len(bids) |-> [status |-> bids[j].status, cpm |-> bids[j].cpmUsd]]

\* the slot's row of an auction payload
SlotRow(payload, code) ==
    payload.adUnits[CHOOSE i \in 1..Len(payload.adUnits) : payload.adUnits[i].code = code]

\* C31: in every payload that is sent, the rank of an own-bidder bid that is
\* received with a positive USD CPM is one more than the number of received
\* bids of its slot with a higher USD CPM: its position in the descending list
\* of the slot's received positive CPMs, the first position of a tied value; so
\* rank 1 says that no received bid of the slot has a higher USD CPM. In the
\* auction payload this holds of every own row against the slot's bidder rows;
\* in the win payload of the first own bid of the slot against the record.
C31_RankIsPosition ==
    [][\A n \in 1..Len(NewPosts) :
          LET post == NewPosts[n] IN
          IF post.kind = "auction"
          THEN LET payload == payloads'[post.gen].auction IN
               \A k \in 1..Len(payload.kargo.bids) :
                  LET row == payload.kargo.bids[k] IN
                  (row.status = "received" /\ row.cpm > 0)
                     => /\ row.rank = 1 + Higher(SlotRow(payload, row.adUnitCode).bidders,
                                                 row.cpm)
                        /\ row.rank = 1
                              <=> \A j \in 1..Len(SlotRow(payload, row.adUnitCode).bidders) :
                                     LET other == SlotRow(payload, row.adUnitCode).bidders[j]
                                     IN  other.status = "received" => other.cpm <= row.cpm
          ELSE LET payload == payloads'[post.gen].win
                   own == OwnBids(cache'[post.auctionId], post.adUnitCode)
               IN  (own # <<>> /\ own[1].status = "received" /\ own[1].cpmUsd > 0)
                      => payload.kargo.rank =
                            1 + Higher(PricedRows(cache'[post.auctionId], post.adUnitCode),
                                       own[1].cpmUsd)]_vars

\* an auction payload was sent in which two own bids tie below another
\* bidder's bid: both have rank 2
C31_Witness ==
    \E g \in Gens :
        /\ payloads[g].auction # NoPayload
        /\ \E k, m \in 1..Len(payloads[g].auction.kargo.bids) :
              /\ k # m
              /\ payloads[g].auction.kargo.bids[k].status = "received"
              /\ payloads[g].auction.kargo.bids[m].status = "received"
              /\ payloads[g].auction.kargo.bids[k].cpm = payloads[g].auction.kargo.bids[m].cpm
              /\ payloads[g].auction.kargo.bids[k].rank = 2
              /\ payloads[g].auction.kargo.bids[m].rank = 2

-----------------------------------------------------------------------------
(* C32 *)

\* C32 (as claimed): in every payload that is sent, the rank of an own-bidder
\* bid is null when the bid's status is not received as the payload is
\* formatted, or when it has no positive USD CPM, whatever the other bids of
\* the slot are. Violated: a bid that was received and then marked no-bid or
\* timeout keeps its cpmUsd, and takes the rank of a received bid of equal CPM.
C32_RankNullUnlessReceived ==
    [][\A n \in 1..Len(NewPosts) :
          LET post == NewPosts[n] IN
          IF post.kind = "auction"
          THEN LET payload == payloads'[post.gen].auction IN
               \A k \in 1..Len(payload.kargo.bids) :
                  LET row == payload.kargo.bids[k] IN
                  (row.status # "received" \/ ~(row.cpm > 0)) => row.rank = NoNum
          ELSE LET payload == payloads'[post.gen].win
                   own == OwnBids(cache'[post.auctionId], post.adUnitCode)
               IN  (own # <<>> /\ (own[1].status # "received" \/ ~(own[1].cpmUsd > 0)))
                      => payload.kargo.rank = NoNum]_vars

-----------------------------------------------------------------------------
(* C33 *)

\* C33: an auction-init with an auction id that has a record puts a new record
\* in its place: a new object, not sent, not ended, with the slots the event
\* declares, each without bids, with empty sequences of responses, no-bids,
\* timeouts and errors, and without winners.
C33_InitReplacesRecord ==
    [][(StepOf({"auctionInit"}) /\ lastEvent'.auctionId # NoId /\ lastEvent'.hadRecord) =>
          LET fresh == cache'[lastEvent'.auctionId]
              declared == inits'[fresh.gen].adUnits
          IN  /\ fresh.gen # cache[lastEvent'.auctionId].gen
              /\ ~fresh.sent
              /\ fresh.endTimestamp = NoNum
              /\ fresh.duration = NoNum
              /\ Len(fresh.adUnits) = Len(declared)
              /\ \A i \in 1..Len(declared) :
                    fresh.adUnits[i].key = declared[i] /\ fresh.adUnits[i].bids = <<>>
              /\ fresh.bidsReceived = <<>>
              /\ fresh.noBids = <<>>
              /\ fresh.timeouts = <<>>
              /\ fresh.errors = <<>>
              /\ fresh.winningBids = <<>>]_vars

\* the auction-init came while the first record of the auction was in the
\* cache, after it had ended, had been posted and had been marked sent by the
\* callback (which armed the eviction timer); the record in the cache is the
\* second one
C33_Witness ==
    /\ lastEvent.kind = "auctionInit"
    /\ lastEvent.hadRecord
    /\ "a1" \in DOMAIN cache
    /\ cache["a1"].gen = 2
    /\ payloads[1].auction # NoPayload
    /\ inflight = <<>>
    /\ cleanupTimers["a1"] > 0
    /\ ~cache["a1"].sent
    /\ cache["a1"].adUnits[1].bids = <<>>

-----------------------------------------------------------------------------
(* C34 *)

\* the auctions a step belongs to: those its event names, or the one whose
\* timer fires or whose network call completes
Owners ==
    IF EventStep THEN NamedAuctions(lastEvent')
    ELSE {a \in AuctionIds : SendTimerStep(a) \/ CleanupTimerStep(a)}
         \cup {inflight[i].auctionId : i \in {j \in 1..Len(inflight) : CallbackStep(j)}}

\* the step leaves auction b as it is: its record, its timers, its calls
Untouched(b) ==
    /\ b \in DOMAIN cache' <=> b \in DOMAIN cache
    /\ b \in DOMAIN cache => cache'[b] = cache[b]
    /\ sendTimers'[b] = sendTimers[b]
    /\ cleanupTimers'[b] = cleanupTimers[b]
    /\ \A n \in 1..Len(NewPosts) : NewPosts[n].auctionId # b
    /\ SelectSeq(inflight', LAMBDA c : c.auctionId = b)
            = SelectSeq(inflight, LAMBDA c : c.auctionId = b)

\* what a state holds of auction a, but for the identity of its record
PartOf(w, a) ==
    [record |-> IF a \in DOMAIN w.cache THEN <<[w.cache[a] EXCEPT !.gen = 0]>> ELSE <<>>,
     sendTimers |-> w.sendTimers[a],
     cleanupTimers |-> w.cleanupTimers[a],
     posts |-> LET own == SelectSeq(w.posts, LAMBDA p : p.auctionId = a)
               IN  [n \in 1..Len(own) |-> <<own[n].kind, own[n].adUnitCode>>],
     inflight |-> Len(SelectSeq(w.inflight, LAMBDA c : c.auctionId = a))]

\* the state after track() has been given an event
After(w, e) == track(w, e.eventType, e.args, TwoHost)

\* from the present state, every event of a1 and every event of a2 lead to the
\* same records, timers and calls of both auctions in either order
Commute ==
    LET first == [e \in EventsOn("a1") |-> After(World, e)]
        second == [f \in EventsOn("a2") |-> After(World, f)]
    IN  \A e \in EventsOn("a1"), f \in EventsOn("a2") :
            LET ef == After(first[e], f)
                fe == After(second[f], e)
            IN  \A a \in AuctionIds : PartOf(ef, a) = PartOf(fe, a)

\* C34: a step other than the teardown leaves every auction it does not belong
\* to as it is: the record, the timers, the network calls and the deliveries of
\* another auction id do not change; and an event of one auction and an event of
\* another have the same effect in either order.
C34_PartitionedByAuction ==
    /\ [][~DisableStep => \A b \in AuctionIds \ Owners : Untouched(b)]_vars
    /\ []Commute

\* both auctions have a record, that of a2 with a bid; a1 has ended and has
\* been posted while nothing has been sent for a2
C34_Witness ==
    /\ DOMAIN cache = {"a1", "a2"}
    /\ cache["a2"].bidsReceived # <<>>
    /\ cache["a2"].endTimestamp = NoNum
    /\ sendTimers["a2"] = 0
    /\ PostsOf("auction", "a1") # {}
    /\ PostsOf("auction", "a2") = {}
    /\ PostsOf("win", "a2") = {}

-----------------------------------------------------------------------------
(* C35 *)

\* C35 (as claimed): every auction payload that is posted is of a record that
\* has processed an auction-end: its duration is set. Violated: the debounce
\* timer looks the record up by auction id when it fires, and posts the record
\* a later auction-init has put under that id.
C35_DeliveredRecordHasEnded ==
    [][\A n \in 1..Len(NewPosts) :
          NewPosts[n].kind = "auction"
             => /\ cache'[NewPosts[n].auctionId].endTimestamp # NoNum
                /\ payloads'[NewPosts[n].gen].auction.auctionDuration # NoNum]_vars

-----------------------------------------------------------------------------
(* C36 *)

\* C36 (as claimed): but for the teardown, a record leaves the cache only
\* after it was marked sent. Violated: the eviction timer deletes by auction
\* id, and removes the unsent record a later auction-init has put under it.
C36_EvictedRecordWasSent ==
    [][\A a \in AuctionIds :
          (~DisableStep /\ a \in DOMAIN cache /\ a \notin DOMAIN cache')
             => cache[a].sent]_vars

-----------------------------------------------------------------------------
(* C37 *)

\* C37 (as claimed): in every state, every BidRecord flagged won is of the
\* bidder, or has the bid id, of the winner recorded for its slot. Violated:
\* a bid-won sets the flags of the bids it matches and clears none, so the
\* bids of an earlier winner of the slot stay flagged.
C37_WonMatchesWinner ==
    \A a \in DOMAIN cache :
        \A i \in 1..Len(cache[a].adUnits) :
            LET adUnit == cache[a].adUnits[i] IN
            \A j \in 1..Len(adUnit.bids) :
                adUnit.bids[j].won
                   => /\ HasWinner(cache[a], adUnit.key)
                      /\ \/ adUnit.bids[j].bidder = WinnerOf(cache[a], adUnit.key).bidder
                         \/ adUnit.bids[j].bidId = WinnerOf(cache[a], adUnit.key).bidId

-----------------------------------------------------------------------------
(* C38 *)

\* C38 (as claimed): a bidder-done forces every pending BidRecord it reports
\* to no-bid, whatever the other bids it reports are. Violated: a reported bid
\* without BidRecord that carries a server response time makes the handler
\* throw, and the bids reported after it are not looked at.
C38_EveryReportedBidIsForced ==
    [][(StepOf({"bidderDone"}) /\ lastEvent'.auctionId \in DOMAIN cache)
          => LET a == lastEvent'.auctionId IN
             \A i \in 1..Len(cache[a].adUnits) :
                \A j \in 1..Len(cache[a].adUnits[i].bids) :
                   LET old == cache[a].adUnits[i].bids[j] IN
                   (/\ old.status = "pending"
                    /\ ReportedDone(lastEvent'.args, cache[a].adUnits[i].key, old.key))
                      => cache'[a].adUnits[i].bids[j].status = "no-bid"]_vars

-----------------------------------------------------------------------------
(* C39 *)

\* the number of per-slot bidder rows of an auction payload with status received
ReceivedRows(payload) ==
    SeqSum([i \in 1..Len(payload.adUnits) |->
                Len(SelectSeq(payload.adUnits[i].bidders,
                              LAMBDA row : row.status = "received"))])

\* C39 (as claimed): in every auction payload that was sent, totalBidsReceived
\* is the number of per-slot bidder rows with status received, and is at most
\* totalBidsRequested. Violated: a second response to the same bid id is
\* counted again while the slot has one row for the bid.
C39_CountsMatchRows ==
    \A g \in Gens :
        payloads[g].auction # NoPayload
           => /\ payloads[g].auction.auction.totalBidsReceived
                    = ReceivedRows(payloads[g].auction)
              /\ payloads[g].auction.auction.totalBidsReceived
                    <= payloads[g].auction.auction.totalBidsRequested

\* C39 (amended): totalBidsReceived counts the bid-response events the record
\* accepted, not the bids: a new record has none, every bid-response for a
\* declared slot of the record adds one, no other event changes the count, and
\* the auction payload reports the count the record has when it is sent; in
\* every auction payload that was sent it is at least the number of per-slot
\* bidder rows with status received.
C39_CountsResponses ==
    /\ [][/\ \A a \in DOMAIN cache' :
                LET count == Len(cache'[a].bidsReceived) IN
                IF ~SameRecord(a) THEN count = 0
                ELSE IF /\ StepOf({"bidResponse"})
                        /\ lastEvent'.auctionId = a
                        /\ Declared(cache[a], lastEvent'.adUnitCode)
                     THEN count = Len(cache[a].bidsReceived) + 1
                     ELSE count = Len(cache[a].bidsReceived)
           /\ \A n \in 1..Len(NewPosts) :
                NewPosts[n].kind = "auction"
                   => payloads'[NewPosts[n].gen].auction.auction.totalBidsReceived
                         = Len(cache'[NewPosts[n].auctionId].bidsReceived)]_vars
    /\ [](\A g \in Gens :
            payloads[g].auction # NoPayload
               => ReceivedRows(payloads[g].auction)
                     <= payloads[g].auction.auction.totalBidsReceived)

\* an auction payload was sent that counts two responses for one requested
\* bid, whose row is the only one received
C39_Witness ==
    \E g \in Gens :
        /\ payloads[g].auction # NoPayload
        /\ payloads[g].auction.auction.totalBidsReceived = 2
        /\ payloads[g].auction.auction.totalBidsRequested = 1
        /\ ReceivedRows(payloads[g].auction) = 1

-----------------------------------------------------------------------------
(* C40 *)

\* C40: the requestCount of the requests the bid adapter builds is a sequence
\* per page: the first request, and every request built on another page than
\* the request before it, carries 0; every request built on the same page as
\* the request before it carries one more than that request.
C40_RequestCountPerPage ==
    \A i \in 1..Len(requests) :
        requests[i].requestCount =
            IF i > 1 /\ requests[i - 1].pathname = requests[i].pathname
            THEN requests[i - 1].requestCount + 1
            ELSE 0

\* three requests on one page carried 0, 1 and 2, a request on another page
\* carried 0, and so did the next request, back on the first page
C40_Witness ==
    /\ Len(requests) = 5
    /\ requests[3].requestCount = 2
    /\ requests[3].pathname = requests[1].pathname
    /\ requests[4].pathname # requests[3].pathname
    /\ requests[4].requestCount = 0
    /\ requests[5].pathname = requests[1].pathname
    /\ requests[5].requestCount = 0

====
